---- MODULE Spec2Model ----
(***************************************************************************)
(* Application lifecycle state machine (tracker/state_machine.py) and the  *)
(* human-in-the-loop work queue (work/queue.py) of emplaiyed, over the     *)
(* SQLite store of core/database.py.                                       *)
(***************************************************************************)
EXTENDS Integers, Sequences, FiniteSets, TLC

VARIABLES applications, work_items, interactions, clock, calls, last, callers

vars == <<applications, work_items, interactions, clock, calls, last, callers>>

----------------------------------------------------------------------------
(* Bounds of the model *)

\* calls that write to the store in one run
MaxCalls == 3
\* rows the work_items table may hold
MaxItems == 2

----------------------------------------------------------------------------
(* core/models.py *)

\* None where a text may be absent (draft_content)
None == "None"

\* None where a datetime may be absent (completed_at); readings of the clock are
\* never negative
NoTime == -1

ApplicationStatus ==
    { "DISCOVERED", "SCORED", "OUTREACH_PENDING", "OUTREACH_SENT",
      "FOLLOW_UP_PENDING", "FOLLOW_UP_1", "FOLLOW_UP_2", "RESPONSE_RECEIVED",
      "INTERVIEW_SCHEDULED", "INTERVIEW_COMPLETED", "OFFER_RECEIVED",
      "NEGOTIATION_PENDING", "NEGOTIATING", "ACCEPTANCE_PENDING",
      "ACCEPTED", "REJECTED", "GHOSTED", "PASSED" }

WorkType == { "OUTREACH", "FOLLOW_UP", "NEGOTIATE", "ACCEPT" }

WorkStatus == { "PENDING", "COMPLETED", "SKIPPED" }

InteractionType == { "EMAIL_SENT", "FOLLOW_UP" }

\* WorkItem(...): status defaults to PENDING, completed_at to None; the id is a
\* fresh uuid4, modelled as the row's index in work_items.
WorkItem(application_id, work_type, title, instructions, draft_content, target_status, previous_status, created_at) ==
    [ application_id  |-> application_id,
      work_type       |-> work_type,
      status          |-> "PENDING",
      title           |-> title,
      instructions    |-> instructions,
      draft_content   |-> draft_content,
      target_status   |-> target_status,
      previous_status |-> previous_status,
      created_at      |-> created_at,
      completed_at    |-> NoTime ]

\* Interaction(...): the id is a fresh uuid4, modelled as the row's index.
Interaction(application_id, type, direction, channel, content, created_at) ==
    [ application_id |-> application_id,
      type           |-> type,
      direction      |-> direction,
      channel        |-> channel,
      content        |-> content,
      created_at     |-> created_at ]

----------------------------------------------------------------------------
(* tracker/state_machine.py *)

VALID_TRANSITIONS ==
    [ s \in ApplicationStatus |->
        CASE s = "DISCOVERED"          -> { "SCORED" }
          [] s = "SCORED"              -> { "OUTREACH_PENDING", "OUTREACH_SENT", "PASSED" }
          [] s = "OUTREACH_PENDING"    -> { "OUTREACH_SENT", "SCORED", "PASSED" }
          [] s = "OUTREACH_SENT"       -> { "FOLLOW_UP_PENDING", "FOLLOW_UP_1",
                                            "RESPONSE_RECEIVED", "GHOSTED" }
          [] s = "FOLLOW_UP_PENDING"   -> { "FOLLOW_UP_1", "FOLLOW_UP_2",
                                            "OUTREACH_SENT", "FOLLOW_UP_1" }
          [] s = "FOLLOW_UP_1"         -> { "FOLLOW_UP_PENDING", "FOLLOW_UP_2",
                                            "RESPONSE_RECEIVED", "GHOSTED" }
          [] s = "FOLLOW_UP_2"         -> { "RESPONSE_RECEIVED", "GHOSTED" }
          [] s = "RESPONSE_RECEIVED"   -> { "INTERVIEW_SCHEDULED", "REJECTED" }
          [] s = "INTERVIEW_SCHEDULED" -> { "INTERVIEW_COMPLETED", "REJECTED" }
          [] s = "INTERVIEW_COMPLETED" -> { "INTERVIEW_SCHEDULED", "OFFER_RECEIVED",
                                            "REJECTED" }
          [] s = "OFFER_RECEIVED"      -> { "NEGOTIATION_PENDING", "ACCEPTANCE_PENDING",
                                            "NEGOTIATING", "ACCEPTED", "REJECTED" }
          [] s = "NEGOTIATION_PENDING" -> { "NEGOTIATING", "OFFER_RECEIVED" }
          [] s = "NEGOTIATING"         -> { "OFFER_RECEIVED", "ACCEPTANCE_PENDING",
                                            "ACCEPTED", "REJECTED" }
          [] s = "ACCEPTANCE_PENDING"  -> { "ACCEPTED", "OFFER_RECEIVED", "NEGOTIATING" }
          [] s = "ACCEPTED"            -> {}
          [] s = "REJECTED"            -> {}
          [] s = "GHOSTED"             -> { "RESPONSE_RECEIVED" }
          [] s = "PASSED"              -> {} ]

\* The statuses that stage a work item (the *_PENDING members).
PENDING_STAGING ==
    { "OUTREACH_PENDING", "FOLLOW_UP_PENDING", "NEGOTIATION_PENDING",
      "ACCEPTANCE_PENDING" }

\* can_transition with an edge out of REJECTED, as GHOSTED has one
can_transition_reconsidered(current, target) ==
    \/ target \in VALID_TRANSITIONS[current]
    \/ current = "REJECTED" /\ target = "RESPONSE_RECEIVED"

\* can_transition with an edge that takes a PASSED application back to SCORED
can_transition_unpass(current, target) ==
    \/ target \in VALID_TRANSITIONS[current]
    \/ current = "PASSED" /\ target = "SCORED"

\* can_transition that accepts the status the application already has
can_transition_reflexive(current, target) ==
    \/ target \in VALID_TRANSITIONS[current]
    \/ current = target

\* can_transition that lets a GHOSTED application be closed as REJECTED
can_transition_ghosted_closes(current, target) ==
    \/ target \in VALID_TRANSITIONS[current]
    \/ current = "GHOSTED" /\ target = "REJECTED"

\* can_transition without the direct edge from SCORED to OUTREACH_SENT
can_transition_staged_only(current, target) ==
    /\ target \in VALID_TRANSITIONS[current]
    /\ ~ ( current = "SCORED" /\ target = "OUTREACH_SENT" )

\* can_transition without the edge from OUTREACH_PENDING back to SCORED
can_transition_no_revert(current, target) ==
    /\ target \in VALID_TRANSITIONS[current]
    /\ ~ ( current = "OUTREACH_PENDING" /\ target = "SCORED" )

\* can_transition that allows a single interview round
can_transition_single_round(current, target) ==
    /\ target \in VALID_TRANSITIONS[current]
    /\ ~ ( current = "INTERVIEW_COMPLETED" /\ target = "INTERVIEW_SCHEDULED" )

\* can_transition where a counter-offer cannot be answered by a new offer
can_transition_final_offer(current, target) ==
    /\ target \in VALID_TRANSITIONS[current]
    /\ ~ ( current = "NEGOTIATING" /\ target = "OFFER_RECEIVED" )

\* can_transition in a graph where outreach staging leads to follow-up staging
can_transition_restaged(current, target) ==
    \/ target \in VALID_TRANSITIONS[current]
    \/ current = "OUTREACH_PENDING" /\ target = "FOLLOW_UP_PENDING"

\* can_transition in a graph where a completed interview may end in silence
can_transition_ghosted_late(current, target) ==
    \/ target \in VALID_TRANSITIONS[current]
    \/ current = "INTERVIEW_COMPLETED" /\ target = "GHOSTED"

\* can_transition in a graph where nothing follows GHOSTED
can_transition_ghosted_for_good(current, target) ==
    /\ target \in VALID_TRANSITIONS[current]
    /\ current # "GHOSTED"

can_transition(current, target) ==
    target \in VALID_TRANSITIONS[current]

\* The statuses by name, in the order sorted() gives their values.
SortedStatuses ==
    << "ACCEPTANCE_PENDING", "ACCEPTED", "DISCOVERED", "FOLLOW_UP_1",
       "FOLLOW_UP_2", "FOLLOW_UP_PENDING", "GHOSTED", "INTERVIEW_COMPLETED",
       "INTERVIEW_SCHEDULED", "NEGOTIATING", "NEGOTIATION_PENDING",
       "OFFER_RECEIVED", "OUTREACH_PENDING", "OUTREACH_SENT", "PASSED",
       "REJECTED", "RESPONSE_RECEIVED", "SCORED" >>

\* The marker the message carries in place of the list of valid targets.
TerminalMarker == "none (terminal state)"

\* valid_str of InvalidTransitionError.__init__, as the sequence of the names
\* that ", ".join puts together.
\* valid_str without the marker: an empty list for a status with no target
valid_str_plain(current) ==
    LET valid == VALID_TRANSITIONS[current]
        In(s) == s \in valid
    IN  SelectSeq(SortedStatuses, In)

valid_str(current) ==
    LET valid == VALID_TRANSITIONS[current]
        In(s) == s \in valid
    IN  IF valid # {} THEN SelectSeq(SortedStatuses, In) ELSE << TerminalMarker >>

\* InvalidTransitionError(current, target, application_id): its attributes.
InvalidTransitionError(current, target, application_id) ==
    [ current |-> current, target |-> target, application_id |-> application_id ]

\* str() of an InvalidTransitionError: the parts its message is made of.
message(error) ==
    [ application_id |-> error.application_id,
      from           |-> error.current,
      to             |-> error.target,
      valid_str      |-> valid_str(error.current) ]

\* ValueError(f"Application not found: {application_id}")
ValueError(application_id) ==
    [ message |-> "Application not found", application_id |-> application_id ]

\* transition without the can_transition check
transition_unvalidated(apps, application_id, target, now) ==
    IF application_id \notin DOMAIN apps
    THEN [ result |-> "NotFound", applications |-> apps,
           reads |-> 0, writes |-> << >> ]
    ELSE [ result |-> "ok",
           applications |-> [ apps EXCEPT ![application_id].status = target,
                                          ![application_id].updated_at = now ],
           reads |-> 1, writes |-> << "applications" >> ]

\* transition that refreshes updated_at before it validates the target
transition_touch_first(apps, application_id, target, now) ==
    IF application_id \notin DOMAIN apps
    THEN [ result |-> "NotFound", applications |-> apps,
           reads |-> 0, writes |-> << >> ]
    ELSE IF ~ (target \in VALID_TRANSITIONS[apps[application_id].status])
    THEN [ result |-> "InvalidTransition",
           applications |-> [ apps EXCEPT ![application_id].updated_at = now ],
           reads |-> 1, writes |-> << "applications" >> ]
    ELSE [ result |-> "ok",
           applications |-> [ apps EXCEPT ![application_id].status = target,
                                          ![application_id].updated_at = now ],
           reads |-> 1, writes |-> << "applications" >> ]

\* transition that saves the new status without refreshing updated_at
transition_stale(apps, application_id, target, now) ==
    IF application_id \notin DOMAIN apps
    THEN [ result |-> "NotFound", applications |-> apps,
           reads |-> 0, writes |-> << >>, value |-> ValueError(application_id) ]
    ELSE IF ~ can_transition(apps[application_id].status, target)
    THEN [ result |-> "InvalidTransition", applications |-> apps,
           reads |-> 0, writes |-> << >>,
           value |-> InvalidTransitionError(apps[application_id].status, target,
                                            application_id) ]
    ELSE LET updated == [ apps[application_id] EXCEPT !.status = target ]
         IN  [ result |-> "ok",
               applications |-> [ apps EXCEPT ![application_id] = updated ],
               reads |-> 1, writes |-> << "applications" >>,
               value |-> updated ]

\* transition that saves a row for an application_id it did not find
transition_upsert(apps, application_id, target, now) ==
    IF application_id \notin DOMAIN apps
    THEN [ result |-> "ok",
           applications |-> [ a \in DOMAIN apps \cup { application_id } |->
                                IF a \in DOMAIN apps
                                THEN apps[a]
                                ELSE [ opportunity_id |-> None, status |-> target,
                                       score |-> 0, created_at |-> now,
                                       updated_at |-> now ] ],
           reads |-> 1, writes |-> << "applications" >>, value |-> ValueError(application_id) ]
    ELSE IF ~ can_transition(apps[application_id].status, target)
    THEN [ result |-> "InvalidTransition", applications |-> apps,
           reads |-> 0, writes |-> << >>,
           value |-> InvalidTransitionError(apps[application_id].status, target,
                                            application_id) ]
    ELSE LET updated == [ apps[application_id] EXCEPT !.status = target,
                                                      !.updated_at = now ]
         IN  [ result |-> "ok",
               applications |-> [ apps EXCEPT ![application_id] = updated ],
               reads |-> 1, writes |-> << "applications" >>,
               value |-> updated ]

\* transition(conn, application_id, target), as a function of the applications
\* table and of the clock: the outcome, the table it leaves, the number of
\* datetime.now() readings it took, the tables it wrote, and the value it
\* returns or the exception it raises.
\* transition that moves every application that may take the target
transition_sweeping(apps, application_id, target, now) ==
    IF application_id \notin DOMAIN apps
    THEN [ result |-> "NotFound", applications |-> apps,
           reads |-> 0, writes |-> << >>, value |-> ValueError(application_id) ]
    ELSE IF ~ can_transition(apps[application_id].status, target)
    THEN [ result |-> "InvalidTransition", applications |-> apps,
           reads |-> 0, writes |-> << >>,
           value |-> InvalidTransitionError(apps[application_id].status, target, application_id) ]
    ELSE LET updated == [ apps[application_id] EXCEPT !.status = target, !.updated_at = now ]
         IN  [ result |-> "ok",
               applications |-> [ b \in DOMAIN apps |->
                                    IF can_transition(apps[b].status, target)
                                    THEN [ apps[b] EXCEPT !.status = target,
                                                          !.updated_at = now ]
                                    ELSE apps[b] ],
               reads |-> 1, writes |-> << "applications" >>, value |-> updated ]

transition(apps, application_id, target, now) ==
    IF application_id \notin DOMAIN apps
    THEN [ result |-> "NotFound", applications |-> apps,
           reads |-> 0, writes |-> << >>, value |-> ValueError(application_id) ]
    ELSE IF ~ can_transition(apps[application_id].status, target)
    THEN [ result |-> "InvalidTransition", applications |-> apps,
           reads |-> 0, writes |-> << >>,
           value |-> InvalidTransitionError(apps[application_id].status, target,
                                            application_id) ]
    ELSE LET updated == [ apps[application_id] EXCEPT !.status = target,
                                                      !.updated_at = now ]
         IN  [ result |-> "ok",
               applications |-> [ apps EXCEPT ![application_id] = updated ],
               reads |-> 1, writes |-> << "applications" >>,
               value |-> updated ]

----------------------------------------------------------------------------
(* The store and the callers' inputs *)

\* ids a caller may pass; Init says which of them are stored
AppIdInputs == { "app-1", "app-2" }

\* ids a caller may pass: the stored rows and one past them
WorkItemIdInputs == 1 .. (MaxItems + 1)

\* What a caller asks create_work_item to store: work_type, draft_content,
\* target_status, previous_status.
Request(work_type, draft_content, target_status, previous_status) ==
    [ work_type |-> work_type, draft_content |-> draft_content,
      target_status |-> target_status, previous_status |-> previous_status ]

\* The requests of the orchestrators (outreach/drafter.py enqueue_outreach,
\* generation/pipeline.py, followup/agent.py enqueue_followup) and of the
\* remaining work kinds, then requests no orchestrator makes: a target that is a
\* staging status, a target no edge leads to with a terminal previous_status.
RequestInputs ==
    { Request("OUTREACH", "draft", "OUTREACH_SENT", "SCORED"),
      Request("OUTREACH", None, "OUTREACH_SENT", "SCORED"),
      Request("FOLLOW_UP", "draft", "FOLLOW_UP_1", "OUTREACH_SENT"),
      Request("FOLLOW_UP", "draft", "FOLLOW_UP_2", "FOLLOW_UP_1"),
      Request("NEGOTIATE", "draft", "NEGOTIATING", "OFFER_RECEIVED"),
      Request("ACCEPT", None, "ACCEPTED", "NEGOTIATING"),
      Request("OUTREACH", "draft", "FOLLOW_UP_PENDING", "SCORED"),
      Request("FOLLOW_UP", None, "DISCOVERED", "PASSED") }

\* A call on an id that is not stored ends the same way whatever its other
\* arguments are, and so does a create_work_item whose pending_status is
\* rejected: one representative of the other arguments is enumerated there.
TargetsFor(application_id) ==
    IF application_id \in DOMAIN applications
    THEN ApplicationStatus
    ELSE { "SCORED" }

\* pending_status a caller may pass: the staging statuses, as the orchestrators
\* do, and a status that stages nothing
PendingInputs == PENDING_STAGING \cup { "OUTREACH_SENT" }

PendingsFor(application_id) ==
    IF application_id \in DOMAIN applications
    THEN PendingInputs
    ELSE { "OUTREACH_PENDING" }

RequestsFor(application_id, pending_status) ==
    IF /\ application_id \in DOMAIN applications
       /\ can_transition(applications[application_id].status, pending_status)
    THEN RequestInputs
    ELSE { Request("OUTREACH", "draft", "OUTREACH_SENT", "SCORED") }

\* An application as its creator stores it (scoring/scorer.py): timestamps equal.
Application(opportunity_id, status, now) ==
    [ opportunity_id |-> opportunity_id,
      status         |-> status,
      score          |-> 50,
      created_at     |-> now,
      updated_at     |-> now ]

\* One record of the last call: the operation, how it ended, and the tables it
\* wrote, in the order of the writes.
Call(op, result, writes) ==
    [ op |-> op, result |-> result, writes |-> writes ]

\* The processes that may be inside transition at the same time, each on its
\* own connection to the store.
Callers == { "c1", "c2" }

\* Where a caller is in transition and what it holds: the arguments, the
\* record get_application returned, and how the call ended.
Frame(pc, application_id, target, app, result) ==
    [ pc |-> pc, application_id |-> application_id, target |-> target,
      app |-> app, result |-> result ]

\* A caller that has not called transition.
Idle == Frame("idle", None, None, Application(None, None, NoTime), None)

\* One stored application, anywhere in its lifecycle outside the staging
\* statuses (which it enters below, through transition or create_work_item), and
\* no work item or interaction yet. "app-2" is not stored.
Init ==
    /\ \E s \in ApplicationStatus \ PENDING_STAGING :
         applications = [ a \in { "app-1" } |-> Application("opp-1", s, 0) ]
    /\ work_items = << >>
    /\ interactions = << >>
    /\ clock = 1
    /\ calls = 0
    /\ last = Call("none", "ok", << >>)
    /\ callers = [ c \in Callers |-> Idle ]

----------------------------------------------------------------------------
(* work/queue.py, each function over the three tables and the clock: the     *)
(* outcome, the tables it leaves, the datetime.now() readings it took (the    *)
(* k-th reading of a call returns now + k - 1) and the tables it wrote, in    *)
(* the order of the writes.                                                   *)

\* _interaction_type_for that files everything but outreach as a follow-up
_interaction_type_for_outreach_only(work_type) ==
    IF work_type = "OUTREACH" THEN "EMAIL_SENT" ELSE "FOLLOW_UP"

_interaction_type_for(work_type) ==
    IF work_type = "FOLLOW_UP" THEN "FOLLOW_UP" ELSE "EMAIL_SENT"

Outcome(result, apps, items, inters, reads, writes) ==
    [ result |-> result, applications |-> apps, work_items |-> items,
      interactions |-> inters, reads |-> reads, writes |-> writes ]

\* create_work_item that saves the item without the transition to pending_status
create_work_item_unstaged(apps, items, inters, application_id, work_type, title, instructions, draft_content, target_status, previous_status, pending_status, now) ==
    Outcome("ok", apps,
            Append(items, WorkItem(application_id, work_type, title, instructions,
                                   draft_content, target_status, previous_status,
                                   now)),
            inters, 1, << "work_items" >>)

\* create_work_item that passes target_status where pending_status belongs
create_work_item_swapped(apps, items, inters, application_id, work_type, title, instructions, draft_content, target_status, previous_status, pending_status, now) ==
    LET t    == transition(apps, application_id, target_status, now)
        item == WorkItem(application_id, work_type, title, instructions,
                         draft_content, target_status, previous_status,
                         now + t.reads)
    IN  IF t.result # "ok"
        THEN Outcome(t.result, t.applications, items, inters, t.reads, t.writes)
        ELSE Outcome("ok", t.applications, Append(items, item), inters,
                     t.reads + 1, t.writes \o << "work_items" >>)

\* create_work_item that saves the item before it stages the application
create_work_item_item_first(apps, items, inters, application_id, work_type, title, instructions, draft_content, target_status, previous_status, pending_status, now) ==
    LET item == WorkItem(application_id, work_type, title, instructions,
                         draft_content, target_status, previous_status, now)
        t    == transition(apps, application_id, pending_status, now + 1)
    IN  Outcome(t.result, t.applications, Append(items, item), inters,
                1 + t.reads, << "work_items" >> \o t.writes)

\* create_work_item that refuses a target_status that is no legal target from
\* pending_status
create_work_item_validating(apps, items, inters, application_id, work_type, title, instructions, draft_content, target_status, previous_status, pending_status, now) ==
    LET t    == transition(apps, application_id, pending_status, now)
        item == WorkItem(application_id, work_type, title, instructions,
                         draft_content, target_status, previous_status,
                         now + t.reads)
    IN  IF ~ can_transition(pending_status, target_status)
        THEN Outcome("InvalidTransition", apps, items, inters, 0, << >>)
        ELSE IF t.result # "ok"
        THEN Outcome(t.result, t.applications, items, inters, t.reads, t.writes)
        ELSE Outcome("ok", t.applications, Append(items, item), inters,
                     t.reads + 1, t.writes \o << "work_items" >>)

create_work_item(apps, items, inters, application_id, work_type, title, instructions, draft_content, target_status, previous_status, pending_status, now) ==
    LET t    == transition(apps, application_id, pending_status, now)
        item == WorkItem(application_id, work_type, title, instructions,
                         draft_content, target_status, previous_status,
                         now + t.reads)
    IN  IF t.result # "ok"
        THEN Outcome(t.result, t.applications, items, inters, t.reads, t.writes)
        ELSE Outcome("ok", t.applications, Append(items, item), inters,
                     t.reads + 1, t.writes \o << "work_items" >>)

\* complete_work_item without the final save_work_item
complete_work_item_unmarked(apps, items, inters, work_item_id, now) ==
    IF work_item_id \notin DOMAIN items
    THEN Outcome("NotFound", apps, items, inters, 0, << >>)
    ELSE IF items[work_item_id].status # "PENDING"
    THEN Outcome("AlreadyResolved", apps, items, inters, 0, << >>)
    ELSE
    LET item        == items[work_item_id]
        target      == item.target_status
        interaction == Interaction(item.application_id,
                                   _interaction_type_for(item.work_type),
                                   "outbound", "email", item.draft_content, now)
        saved       == Append(inters, interaction)
        t           == transition(apps, item.application_id, target, now + 1)
        updated     == [ item EXCEPT !.status = "COMPLETED",
                                     !.completed_at = now + 1 + t.reads ]
    IN  IF t.result # "ok"
        THEN Outcome(t.result, t.applications, items, saved,
                     1 + t.reads, << "interactions" >> \o t.writes)
        ELSE Outcome("ok", t.applications,
                     items, saved,
                     1 + t.reads,
                     << "interactions" >> \o t.writes)


\* complete_work_item without the check that the item is still PENDING
complete_work_item_unguarded(apps, items, inters, work_item_id, now) ==
    IF work_item_id \notin DOMAIN items
    THEN Outcome("NotFound", apps, items, inters, 0, << >>)
    ELSE
    LET item        == items[work_item_id]
        target      == item.target_status
        interaction == Interaction(item.application_id,
                                   _interaction_type_for(item.work_type),
                                   "outbound", "email", item.draft_content, now)
        saved       == Append(inters, interaction)
        t           == transition(apps, item.application_id, target, now + 1)
        updated     == [ item EXCEPT !.status = "COMPLETED",
                                     !.completed_at = now + 1 + t.reads ]
    IN  IF t.result # "ok"
        THEN Outcome(t.result, t.applications, items, saved,
                     1 + t.reads, << "interactions" >> \o t.writes)
        ELSE Outcome("ok", t.applications,
                     [ items EXCEPT ![work_item_id] = updated ], saved,
                     2 + t.reads,
                     << "interactions" >> \o t.writes \o << "work_items" >>)


\* complete_work_item that saves the COMPLETED item before the transition
complete_work_item_marks_first(apps, items, inters, work_item_id, now) ==
    IF work_item_id \notin DOMAIN items
    THEN Outcome("NotFound", apps, items, inters, 0, << >>)
    ELSE IF items[work_item_id].status # "PENDING"
    THEN Outcome("AlreadyResolved", apps, items, inters, 0, << >>)
    ELSE
    LET item        == items[work_item_id]
        target      == item.target_status
        interaction == Interaction(item.application_id,
                                   _interaction_type_for(item.work_type),
                                   "outbound", "email", item.draft_content, now)
        saved       == Append(inters, interaction)
        t           == transition(apps, item.application_id, target, now + 1)
        updated     == [ item EXCEPT !.status = "COMPLETED",
                                     !.completed_at = now + 1 + t.reads ]
    IN  IF t.result # "ok"
        THEN Outcome(t.result, t.applications,
                     [ items EXCEPT ![work_item_id] = updated ], saved,
                     2 + t.reads,
                     << "interactions", "work_items" >> \o t.writes)
        ELSE Outcome("ok", t.applications,
                     [ items EXCEPT ![work_item_id] = updated ], saved,
                     2 + t.reads,
                     << "interactions" >> \o t.writes \o << "work_items" >>)


\* complete_work_item that records the interaction after the transition
complete_work_item_status_first(apps, items, inters, work_item_id, now) ==
    IF work_item_id \notin DOMAIN items
    THEN Outcome("NotFound", apps, items, inters, 0, << >>)
    ELSE IF items[work_item_id].status # "PENDING"
    THEN Outcome("AlreadyResolved", apps, items, inters, 0, << >>)
    ELSE
    LET item        == items[work_item_id]
        target      == item.target_status
        interaction == Interaction(item.application_id,
                                   _interaction_type_for(item.work_type),
                                   "outbound", "email", item.draft_content, now)
        saved       == Append(inters, interaction)
        t           == transition(apps, item.application_id, target, now + 1)
        updated     == [ item EXCEPT !.status = "COMPLETED",
                                     !.completed_at = now + 1 + t.reads ]
    IN  IF t.result # "ok"
        THEN Outcome(t.result, t.applications, items, inters,
                     t.reads, t.writes)
        ELSE Outcome("ok", t.applications,
                     [ items EXCEPT ![work_item_id] = updated ], saved,
                     2 + t.reads,
                     t.writes \o << "interactions", "work_items" >>)


\* complete_work_item that keeps one interaction per application: it saves
\* over the ones the application already has
complete_work_item_single_log(apps, items, inters, work_item_id, now) ==
    IF work_item_id \notin DOMAIN items
    THEN Outcome("NotFound", apps, items, inters, 0, << >>)
    ELSE IF items[work_item_id].status # "PENDING"
    THEN Outcome("AlreadyResolved", apps, items, inters, 0, << >>)
    ELSE
    LET item        == items[work_item_id]
        target      == item.target_status
        interaction == Interaction(item.application_id,
                                   _interaction_type_for(item.work_type),
                                   "outbound", "email", item.draft_content, now)
        Other(x)    == x.application_id # item.application_id
        saved       == Append(SelectSeq(inters, Other), interaction)
        t           == transition(apps, item.application_id, target, now + 1)
        updated     == [ item EXCEPT !.status = "COMPLETED",
                                     !.completed_at = now + 1 + t.reads ]
    IN  IF t.result # "ok"
        THEN Outcome(t.result, t.applications, items, saved,
                     1 + t.reads, << "interactions" >> \o t.writes)
        ELSE Outcome("ok", t.applications,
                     [ items EXCEPT ![work_item_id] = updated ], saved,
                     2 + t.reads,
                     << "interactions" >> \o t.writes \o << "work_items" >>)

\* complete_work_item that builds the completed item anew, created now
complete_work_item_restamped(apps, items, inters, work_item_id, now) ==
    IF work_item_id \notin DOMAIN items
    THEN Outcome("NotFound", apps, items, inters, 0, << >>)
    ELSE IF items[work_item_id].status # "PENDING"
    THEN Outcome("AlreadyResolved", apps, items, inters, 0, << >>)
    ELSE
    LET item        == items[work_item_id]
        target      == item.target_status
        interaction == Interaction(item.application_id,
                                   _interaction_type_for(item.work_type),
                                   "outbound", "email", item.draft_content, now)
        saved       == Append(inters, interaction)
        t           == transition(apps, item.application_id, target, now + 1)
        updated     == [ item EXCEPT !.status = "COMPLETED",
                                     !.created_at = now + 1 + t.reads,
                                     !.completed_at = now + 1 + t.reads ]
    IN  IF t.result # "ok"
        THEN Outcome(t.result, t.applications, items, saved,
                     1 + t.reads, << "interactions" >> \o t.writes)
        ELSE Outcome("ok", t.applications,
                     [ items EXCEPT ![work_item_id] = updated ], saved,
                     2 + t.reads,
                     << "interactions" >> \o t.writes \o << "work_items" >>)

complete_work_item(apps, items, inters, work_item_id, now) ==
    IF work_item_id \notin DOMAIN items
    THEN Outcome("NotFound", apps, items, inters, 0, << >>)
    ELSE IF items[work_item_id].status # "PENDING"
    THEN Outcome("AlreadyResolved", apps, items, inters, 0, << >>)
    ELSE
    LET item        == items[work_item_id]
        target      == item.target_status
        interaction == Interaction(item.application_id,
                                   _interaction_type_for(item.work_type),
                                   "outbound", "email", item.draft_content, now)
        saved       == Append(inters, interaction)
        t           == transition(apps, item.application_id, target, now + 1)
        updated     == [ item EXCEPT !.status = "COMPLETED",
                                     !.completed_at = now + 1 + t.reads ]
    IN  IF t.result # "ok"
        THEN Outcome(t.result, t.applications, items, saved,
                     1 + t.reads, << "interactions" >> \o t.writes)
        ELSE Outcome("ok", t.applications,
                     [ items EXCEPT ![work_item_id] = updated ], saved,
                     2 + t.reads,
                     << "interactions" >> \o t.writes \o << "work_items" >>)

\* skip_work_item without the check that the item is still PENDING
skip_work_item_unguarded(apps, items, inters, work_item_id, now) ==
    IF work_item_id \notin DOMAIN items
    THEN Outcome("NotFound", apps, items, inters, 0, << >>)
    ELSE
    LET item     == items[work_item_id]
        previous == item.previous_status
        t        == transition(apps, item.application_id, previous, now)
        updated  == [ item EXCEPT !.status = "SKIPPED",
                                  !.completed_at = now + t.reads ]
    IN  IF t.result # "ok"
        THEN Outcome(t.result, t.applications, items, inters, t.reads, t.writes)
        ELSE Outcome("ok", t.applications,
                     [ items EXCEPT ![work_item_id] = updated ], inters,
                     t.reads + 1, t.writes \o << "work_items" >>)

\* skip_work_item that records an interaction as complete_work_item does
skip_work_item_logged(apps, items, inters, work_item_id, now) ==
    IF work_item_id \notin DOMAIN items
    THEN Outcome("NotFound", apps, items, inters, 0, << >>)
    ELSE IF items[work_item_id].status # "PENDING"
    THEN Outcome("AlreadyResolved", apps, items, inters, 0, << >>)
    ELSE
    LET item     == items[work_item_id]
        previous == item.previous_status
        t        == transition(apps, item.application_id, previous, now)
        updated  == [ item EXCEPT !.status = "SKIPPED",
                                  !.completed_at = now + t.reads ]
    IN  IF t.result # "ok"
        THEN Outcome(t.result, t.applications, items, inters, t.reads, t.writes)
        ELSE Outcome("ok", t.applications,
                     [ items EXCEPT ![work_item_id] = updated ],
                     Append(inters, Interaction(item.application_id,
                                                _interaction_type_for(item.work_type),
                                                "outbound", "email",
                                                item.draft_content, now + t.reads)),
                     t.reads + 1,
                     t.writes \o << "interactions", "work_items" >>)

\* skip_work_item that saves the item as SKIPPED before it moves the application
skip_work_item_marks_first(apps, items, inters, work_item_id, now) ==
    IF work_item_id \notin DOMAIN items
    THEN Outcome("NotFound", apps, items, inters, 0, << >>)
    ELSE IF items[work_item_id].status # "PENDING"
    THEN Outcome("AlreadyResolved", apps, items, inters, 0, << >>)
    ELSE
    LET item     == items[work_item_id]
        previous == item.previous_status
        updated  == [ item EXCEPT !.status = "SKIPPED",
                                  !.completed_at = now ]
        saved    == [ items EXCEPT ![work_item_id] = updated ]
        t        == transition(apps, item.application_id, previous, now + 1)
    IN  Outcome(t.result, t.applications, saved, inters,
                1 + t.reads, << "work_items" >> \o t.writes)

\* skip_work_item that stores previous_status without asking the graph
skip_work_item_forced(apps, items, inters, work_item_id, now) ==
    IF work_item_id \notin DOMAIN items
    THEN Outcome("NotFound", apps, items, inters, 0, << >>)
    ELSE IF items[work_item_id].status # "PENDING"
    THEN Outcome("AlreadyResolved", apps, items, inters, 0, << >>)
    ELSE
    LET item    == items[work_item_id]
        a       == item.application_id
        updated == [ item EXCEPT !.status = "SKIPPED", !.completed_at = now + 1 ]
    IN  Outcome("ok",
                [ apps EXCEPT ![a] = [ apps[a] EXCEPT !.status = item.previous_status,
                                                      !.updated_at = now ] ],
                [ items EXCEPT ![work_item_id] = updated ], inters,
                2, << "applications", "work_items" >>)

\* skip_work_item that always reverts to SCORED
skip_work_item_to_scored(apps, items, inters, work_item_id, now) ==
    IF work_item_id \notin DOMAIN items
    THEN Outcome("NotFound", apps, items, inters, 0, << >>)
    ELSE IF items[work_item_id].status # "PENDING"
    THEN Outcome("AlreadyResolved", apps, items, inters, 0, << >>)
    ELSE
    LET item    == items[work_item_id]
        t       == transition(apps, item.application_id, "SCORED", now)
        updated == [ item EXCEPT !.status = "SKIPPED",
                                 !.completed_at = now + t.reads ]
    IN  IF t.result # "ok"
        THEN Outcome(t.result, t.applications, items, inters, t.reads, t.writes)
        ELSE Outcome("ok", t.applications,
                     [ items EXCEPT ![work_item_id] = updated ], inters,
                     t.reads + 1, t.writes \o << "work_items" >>)

skip_work_item(apps, items, inters, work_item_id, now) ==
    IF work_item_id \notin DOMAIN items
    THEN Outcome("NotFound", apps, items, inters, 0, << >>)
    ELSE IF items[work_item_id].status # "PENDING"
    THEN Outcome("AlreadyResolved", apps, items, inters, 0, << >>)
    ELSE
    LET item     == items[work_item_id]
        previous == item.previous_status
        t        == transition(apps, item.application_id, previous, now)
        updated  == [ item EXCEPT !.status = "SKIPPED",
                                  !.completed_at = now + t.reads ]
    IN  IF t.result # "ok"
        THEN Outcome(t.result, t.applications, items, inters, t.reads, t.writes)
        ELSE Outcome("ok", t.applications,
                     [ items EXCEPT ![work_item_id] = updated ], inters,
                     t.reads + 1, t.writes \o << "work_items" >>)

----------------------------------------------------------------------------
(* Operations *)

\* One call: the store becomes what the function leaves, the clock advances by
\* the readings taken, and the call is recorded.
Returns(op, o) ==
    /\ o.writes # << >> => calls < MaxCalls
    /\ Len(o.work_items) <= MaxItems
    /\ applications' = o.applications
    /\ work_items' = o.work_items
    /\ interactions' = o.interactions
    /\ clock' = clock + o.reads
    /\ calls' = IF o.writes # << >> THEN calls + 1 ELSE calls
    /\ last' = Call(op, o.result, o.writes)
    /\ callers' = callers

Transition(application_id, target) ==
    LET t == transition(applications, application_id, target, clock) IN
    Returns("transition",
            Outcome(t.result, t.applications, work_items, interactions,
                    t.reads, t.writes))

CreateWorkItem(application_id, work_type, draft_content, target_status, previous_status, pending_status) ==
    Returns("create_work_item",
            create_work_item(applications, work_items, interactions,
                             application_id, work_type, "title", "instructions",
                             draft_content, target_status, previous_status,
                             pending_status, clock))

CompleteWorkItem(work_item_id) ==
    Returns("complete_work_item",
            complete_work_item(applications, work_items, interactions,
                               work_item_id, clock))

SkipWorkItem(work_item_id) ==
    Returns("skip_work_item",
            skip_work_item(applications, work_items, interactions,
                           work_item_id, clock))

TransitionCall ==
    \E a \in AppIdInputs : \E t \in TargetsFor(a) : Transition(a, t)

CreateCall ==
    \E a \in AppIdInputs : \E p \in PendingsFor(a) :
      \E r \in RequestsFor(a, p) :
        CreateWorkItem(a, r.work_type, r.draft_content, r.target_status,
                       r.previous_status, p)

CompleteCall ==
    \E i \in WorkItemIdInputs : CompleteWorkItem(i)

SkipCall ==
    \E i \in WorkItemIdInputs : SkipWorkItem(i)

Next ==
    \/ TransitionCall
    \/ CreateCall
    \/ CompleteCall
    \/ SkipCall

Spec == Init /\ [][Next]_vars

----------------------------------------------------------------------------
(* scoring/scorer.py: the one place that stores new applications *)

\* The lists of opportunities a caller has scored: the same opportunity may be
\* scored again by a later call.
OpportunityInputs == { << "opp-1" >> }

\* The loop of score_opportunities over the scored opportunities: each is saved
\* as an Application in SCORED under a fresh id (uuid4), all with the same now.
RECURSIVE SaveScored(_, _, _)
SaveScored(apps, opportunities, now) ==
    IF opportunities = << >>
    THEN apps
    ELSE LET id == CHOOSE i \in AppIdInputs : i \notin DOMAIN apps
             app == Application(Head(opportunities), "SCORED", now)
         IN  SaveScored([ a \in DOMAIN apps \cup { id } |->
                            IF a = id THEN app ELSE apps[a] ],
                        Tail(opportunities), now)

\* score_opportunities that also saves the applications its opportunities
\* already have as SCORED again
score_opportunities_rescoring(apps, items, inters, opportunities, db_conn, now) ==
    IF ~ db_conn
    THEN Outcome("ok", apps, items, inters, 0, << >>)
    ELSE LET saved  == SaveScored(apps, opportunities, now)
             scored == { opportunities[k] : k \in DOMAIN opportunities }
         IN  Outcome("ok",
                     [ a \in DOMAIN saved |->
                         IF a \in DOMAIN apps /\ apps[a].opportunity_id \in scored
                         THEN Application(apps[a].opportunity_id, "SCORED", now)
                         ELSE saved[a] ],
                     items, inters, 1,
                     [ k \in 1 .. Len(opportunities) |-> "applications" ])

\* score_opportunities(profile, opportunities, db_conn=...): what it does to the
\* store. Without a connection it stores nothing.
score_opportunities(apps, items, inters, opportunities, db_conn, now) ==
    IF ~ db_conn
    THEN Outcome("ok", apps, items, inters, 0, << >>)
    ELSE Outcome("ok", SaveScored(apps, opportunities, now), items, inters, 1,
                 [ k \in 1 .. Len(opportunities) |-> "applications" ])

\* A call of score_opportunities; uuid4 has an id left for each new application.
ScoreOpportunities(opportunities, db_conn) ==
    /\ Len(opportunities) <= Cardinality(AppIdInputs \ DOMAIN applications)
    /\ Returns("score_opportunities",
               score_opportunities(applications, work_items, interactions,
                                   opportunities, db_conn, clock))

ScoreCall ==
    \E o \in OpportunityInputs : \E c \in BOOLEAN : ScoreOpportunities(o, c)

\* An empty store: every application in it will have come from the scorer.
InitScoring ==
    /\ applications = [ a \in {} |-> Application("opp-1", "SCORED", 0) ]
    /\ work_items = << >>
    /\ interactions = << >>
    /\ clock = 1
    /\ calls = 0
    /\ last = Call("none", "ok", << >>)
    /\ callers = [ c \in Callers |-> Idle ]

NextScoring ==
    \/ ScoreCall
    \/ TransitionCall
    \/ CreateCall
    \/ CompleteCall
    \/ SkipCall

SpecScoring == InitScoring /\ [][NextScoring]_vars

----------------------------------------------------------------------------
(* tracker/state_machine.py, transition as the steps two processes interleave: *)
(* the read of get_application, then the validation and the write.            *)

\* FinishTransition that saves only when the stored record is still the one it
\* read, and otherwise ends with InvalidTransition
FinishTransition_versioned(c) ==
    LET f == callers[c]
        a == f.application_id
        t == transition([ x \in { a } |-> f.app ], a, f.target, clock)
        result == IF applications[a] # f.app THEN "InvalidTransition" ELSE t.result
    IN  /\ f.pc = "validating"
        /\ result = "ok" => calls < MaxCalls
        /\ applications' = IF result = "ok"
                           THEN [ applications EXCEPT ![a] = t.applications[a] ]
                           ELSE applications
        /\ clock' = IF result = "ok" THEN clock + t.reads ELSE clock
        /\ calls' = IF result = "ok" THEN calls + 1 ELSE calls
        /\ last' = Call("transition", result,
                        IF result = "ok" THEN t.writes ELSE << >>)
        /\ callers' = [ callers EXCEPT ![c] = Frame("returned", a, f.target,
                                                     f.app, result) ]
        /\ UNCHANGED << work_items, interactions >>

\* Lines 141-143: get_application, and the ValueError when it finds nothing.
\* Each caller makes one call.
BeginTransition(c, application_id, target) ==
    /\ callers[c].pc = "idle"
    /\ IF application_id \in DOMAIN applications
       THEN /\ callers' = [ callers EXCEPT ![c] =
                              Frame("validating", application_id, target,
                                    applications[application_id], None) ]
            /\ last' = last
       ELSE /\ callers' = [ callers EXCEPT ![c] =
                              Frame("returned", application_id, target,
                                    Idle.app, "NotFound") ]
            /\ last' = Call("transition", "NotFound", << >>)
    /\ UNCHANGED << applications, work_items, interactions, clock, calls >>

\* Lines 145-155: can_transition on the record that was read, then model_copy,
\* save_application and the return; what transition does to a store that holds
\* the record as it was read.
FinishTransition(c) ==
    LET f == callers[c]
        a == f.application_id
        t == transition([ x \in { a } |-> f.app ], a, f.target, clock)
    IN  /\ f.pc = "validating"
        /\ t.writes # << >> => calls < MaxCalls
        /\ applications' = IF t.result = "ok"
                           THEN [ applications EXCEPT ![a] = t.applications[a] ]
                           ELSE applications
        /\ clock' = clock + t.reads
        /\ calls' = IF t.writes # << >> THEN calls + 1 ELSE calls
        /\ last' = Call("transition", t.result, t.writes)
        /\ callers' = [ callers EXCEPT ![c] = Frame("returned", a, f.target,
                                                     f.app, t.result) ]
        /\ UNCHANGED << work_items, interactions >>

BeginCall ==
    \E c \in Callers : \E a \in AppIdInputs : \E t \in TargetsFor(a) :
      BeginTransition(c, a, t)

FinishCall ==
    \E c \in Callers : FinishTransition(c)

NextRace ==
    \/ BeginCall
    \/ FinishCall

SpecRace == Init /\ [][NextRace]_vars

----------------------------------------------------------------------------
(* core/database.py: every save_* commits on its own, so a call that stops    *)
(* (its process is killed) between two writes leaves the earlier ones stored. *)

\* The writes of a call as one transaction: a call that stops leaves nothing
StoppedAfter_rolled_back(apps, items, inters, o, k) ==
    Outcome("stopped", apps, items, inters, o.reads, << >>)

\* What is stored when the call with outcome o, started on apps, items and
\* inters, stops after its first k writes. No call writes a table twice.
StoppedAfter(apps, items, inters, o, k) ==
    LET done    == SubSeq(o.writes, 1, k)
        Done(t) == \E j \in DOMAIN done : done[j] = t
    IN  Outcome("stopped",
                IF Done("applications") THEN o.applications ELSE apps,
                IF Done("work_items") THEN o.work_items ELSE items,
                IF Done("interactions") THEN o.interactions ELSE inters,
                o.reads, done)

\* The places a call with outcome o can stop between two of its writes.
StopPoints(o) == 1 .. (Len(o.writes) - 1)

CreateWorkItemStopped(application_id, work_type, draft_content, target_status, previous_status, pending_status, k) ==
    LET o == create_work_item(applications, work_items, interactions,
                              application_id, work_type, "title", "instructions",
                              draft_content, target_status, previous_status,
                              pending_status, clock)
    IN  /\ k \in StopPoints(o)
        /\ Returns("create_work_item",
                   StoppedAfter(applications, work_items, interactions, o, k))

CompleteWorkItemStopped(work_item_id, k) ==
    LET o == complete_work_item(applications, work_items, interactions,
                                work_item_id, clock)
    IN  /\ k \in StopPoints(o)
        /\ Returns("complete_work_item",
                   StoppedAfter(applications, work_items, interactions, o, k))

SkipWorkItemStopped(work_item_id, k) ==
    LET o == skip_work_item(applications, work_items, interactions,
                            work_item_id, clock)
    IN  /\ k \in StopPoints(o)
        /\ Returns("skip_work_item",
                   StoppedAfter(applications, work_items, interactions, o, k))

StoppedCreateCall ==
    \E a \in AppIdInputs : \E p \in PendingsFor(a) :
      \E r \in RequestsFor(a, p) : \E k \in 1 .. 2 :
        CreateWorkItemStopped(a, r.work_type, r.draft_content, r.target_status,
                              r.previous_status, p, k)

StoppedCompleteCall ==
    \E i \in WorkItemIdInputs : \E k \in 1 .. 2 : CompleteWorkItemStopped(i, k)

StoppedSkipCall ==
    \E i \in WorkItemIdInputs : \E k \in 1 .. 2 : SkipWorkItemStopped(i, k)

\* The calls of work/queue.py, each of which may stop.
NextStop ==
    \/ CreateCall
    \/ CompleteCall
    \/ SkipCall
    \/ StoppedCreateCall
    \/ StoppedCompleteCall
    \/ StoppedSkipCall

SpecStop == Init /\ [][NextStop]_vars

----------------------------------------------------------------------------
(* cli/work_cmd.py: the `work done` and `work skip` commands, on an item id   *)
(* given in full. "Exit" is cli_error (typer.Exit(1)), "AlreadyReported" the  *)
(* yellow "Work item is already ..." line followed by a normal return; an      *)
(* exception of the queue function leaves the command as it was raised.       *)

\* done_command without its own look at the item's status
done_command_unchecked(apps, items, inters, item_id, now) ==
    IF item_id \notin DOMAIN items
    THEN Outcome("Exit", apps, items, inters, 0, << >>)
    ELSE complete_work_item(apps, items, inters, item_id, now)

done_command(apps, items, inters, item_id, now) ==
    IF item_id \notin DOMAIN items
    THEN Outcome("Exit", apps, items, inters, 0, << >>)
    ELSE IF items[item_id].status # "PENDING"
    THEN Outcome("AlreadyReported", apps, items, inters, 0, << >>)
    ELSE complete_work_item(apps, items, inters, item_id, now)

skip_command(apps, items, inters, item_id, now) ==
    IF item_id \notin DOMAIN items
    THEN Outcome("Exit", apps, items, inters, 0, << >>)
    ELSE IF items[item_id].status # "PENDING"
    THEN Outcome("AlreadyReported", apps, items, inters, 0, << >>)
    ELSE skip_work_item(apps, items, inters, item_id, now)

DoneCommand(item_id) ==
    Returns("done_command",
            done_command(applications, work_items, interactions, item_id, clock))

SkipCommand(item_id) ==
    Returns("skip_command",
            skip_command(applications, work_items, interactions, item_id, clock))

DoneCommandCall ==
    \E i \in WorkItemIdInputs : DoneCommand(i)

SkipCommandCall ==
    \E i \in WorkItemIdInputs : SkipCommand(i)

\* The orchestrators enqueue work; the user resolves it from the command line.
NextCli ==
    \/ CreateCall
    \/ DoneCommandCall
    \/ SkipCommandCall

SpecCli == Init /\ [][NextCli]_vars

----------------------------------------------------------------------------
(* outreach/drafter.py and followup/agent.py: the auto-send helpers. Their    *)
(* outcome also lists, in order, the statuses their transition calls stored.  *)
(* The commands that call them pass the id of a stored application; with an   *)
(* id that is not stored save_interaction breaks the foreign key.             *)

\* The outcome of a helper: an Outcome and the statuses stored on the way.
Sent(result, apps, items, inters, reads, writes, statuses) ==
    [ result |-> result, applications |-> apps, work_items |-> items,
      interactions |-> inters, reads |-> reads, writes |-> writes,
      statuses |-> statuses ]

\* A transition the helper does not make.
NoTransition(apps) ==
    [ result |-> "ok", applications |-> apps, reads |-> 0, writes |-> << >>,
      value |-> Application(None, None, NoTime) ]

\* The status a transition call stored, if it stored one.
Stored(t) ==
    IF t.writes # << >> THEN << t.value.status >> ELSE << >>

\* send_outreach that goes for OUTREACH_SENT at once
send_outreach_direct(apps, items, inters, application_id, now) ==
    LET interaction == Interaction(application_id, "EMAIL_SENT", "outbound",
                                   "email", "draft", now)
        saved       == Append(inters, interaction)
        t2          == transition(apps, application_id, "OUTREACH_SENT", now + 1)
    IN  IF application_id \notin DOMAIN apps
        THEN Sent("IntegrityError", apps, items, inters, 1, << >>, << >>)
        ELSE Sent(t2.result, t2.applications, items, saved, 1 + t2.reads,
                  << "interactions" >> \o t2.writes, Stored(t2))

send_outreach(apps, items, inters, application_id, now) ==
    LET t1          == IF /\ application_id \in DOMAIN apps
                          /\ apps[application_id].status = "SCORED"
                       THEN transition(apps, application_id, "OUTREACH_PENDING", now)
                       ELSE NoTransition(apps)
        interaction == Interaction(application_id, "EMAIL_SENT", "outbound",
                                   "email", "draft", now + t1.reads)
        saved       == Append(inters, interaction)
        t2          == transition(t1.applications, application_id,
                                  "OUTREACH_SENT", now + t1.reads + 1)
    IN  IF t1.result # "ok"
        THEN Sent(t1.result, apps, items, inters, 0, << >>, << >>)
        ELSE IF application_id \notin DOMAIN apps
        THEN Sent("IntegrityError", apps, items, inters, 1, << >>, << >>)
        ELSE Sent(t2.result, t2.applications, items, saved,
                  t1.reads + 1 + t2.reads,
                  t1.writes \o << "interactions" >> \o t2.writes,
                  Stored(t1) \o Stored(t2))

send_followup(apps, items, inters, application_id, target_status, now) ==
    LET t1          == IF /\ application_id \in DOMAIN apps
                          /\ apps[application_id].status # "FOLLOW_UP_PENDING"
                       THEN transition(apps, application_id, "FOLLOW_UP_PENDING", now)
                       ELSE NoTransition(apps)
        interaction == Interaction(application_id, "FOLLOW_UP", "outbound",
                                   "email", "draft", now + t1.reads)
        saved       == Append(inters, interaction)
        t2          == transition(t1.applications, application_id,
                                  target_status, now + t1.reads + 1)
    IN  IF t1.result # "ok"
        THEN Sent(t1.result, apps, items, inters, 0, << >>, << >>)
        ELSE IF application_id \notin DOMAIN apps
        THEN Sent("IntegrityError", apps, items, inters, 1, << >>, << >>)
        ELSE Sent(t2.result, t2.applications, items, saved,
                  t1.reads + 1 + t2.reads,
                  t1.writes \o << "interactions" >> \o t2.writes,
                  Stored(t1) \o Stored(t2))

SendOutreach(application_id) ==
    Returns("send_outreach",
            send_outreach(applications, work_items, interactions,
                          application_id, clock))

SendFollowup(application_id, target_status) ==
    Returns("send_followup",
            send_followup(applications, work_items, interactions,
                          application_id, target_status, clock))

SendOutreachCall ==
    \E a \in DOMAIN applications : SendOutreach(a)

SendFollowupCall ==
    \E a \in DOMAIN applications : \E t \in ApplicationStatus :
      SendFollowup(a, t)

\* The auto-send commands next to the direct transitions of the other commands.
NextSend ==
    \/ TransitionCall
    \/ SendOutreachCall
    \/ SendFollowupCall

SpecSend == Init /\ [][NextSend]_vars

----------------------------------------------------------------------------
(* The follow-up entry points: the followup command (cli/followup_cmd.py over *)
(* followup/agent.py) and the console's log-follow-up action (console/app.py).*)

\* list_applications(status=...): ORDER BY updated_at DESC; rows with equal
\* updated_at come in the order the engine finds them, here the input `order`,
\* a sequence of the ids.
list_applications(apps, status, order) ==
    LET ids == SelectSeq(order, LAMBDA a : /\ a \in DOMAIN apps
                                           /\ apps[a].status = status)
    IN  IF /\ Len(ids) = 2
           /\ apps[ids[1]].updated_at < apps[ids[2]].updated_at
        THEN << ids[2], ids[1] >>
        ELSE ids

\* One entry of the stale list.
Stale(application_id, next_status) ==
    [ application_id |-> application_id, next_status |-> next_status ]

\* find_stale_applications with the next statuses exchanged
find_stale_applications_exchanged(apps, stale_days, order, now) ==
    LET cutoff == now - stale_days
        Of(status) == SelectSeq(list_applications(apps, status, order),
                                LAMBDA a : apps[a].updated_at <= cutoff)
        sent == Of("OUTREACH_SENT")
        fu1  == Of("FOLLOW_UP_1")
    IN  [ stale |-> [ k \in 1 .. Len(sent) |-> Stale(sent[k], "FOLLOW_UP_2") ]
                    \o [ k \in 1 .. Len(fu1) |-> Stale(fu1[k], "FOLLOW_UP_1") ],
          reads |-> 1 + Len(sent) + Len(fu1) ]

\* The list and the readings of the clock taken: one for the cutoff, one for
\* the days of each entry. Every application's opportunity is stored.
find_stale_applications(apps, stale_days, order, now) ==
    LET cutoff == now - stale_days
        Of(status) == SelectSeq(list_applications(apps, status, order),
                                LAMBDA a : apps[a].updated_at <= cutoff)
        sent == Of("OUTREACH_SENT")
        fu1  == Of("FOLLOW_UP_1")
    IN  [ stale |-> [ k \in 1 .. Len(sent) |-> Stale(sent[k], "FOLLOW_UP_1") ]
                    \o [ k \in 1 .. Len(fu1) |-> Stale(fu1[k], "FOLLOW_UP_2") ],
          reads |-> 1 + Len(sent) + Len(fu1) ]

\* The loop of followup_command over the stale list: an entry whose draft
\* failed is passed over, an exception of send_followup ends the command.
RECURSIVE SendStale(_, _, _, _, _, _, _, _)
SendStale(apps, items, inters, stale, drafted, now, reads, writes) ==
    IF stale = << >>
    THEN Outcome("ok", apps, items, inters, reads, writes)
    ELSE IF Head(stale).application_id \notin drafted
    THEN SendStale(apps, items, inters, Tail(stale), drafted, now, reads, writes)
    ELSE LET f == send_followup(apps, items, inters, Head(stale).application_id,
                                Head(stale).next_status, now + reads)
         IN  IF f.result # "ok"
             THEN Outcome(f.result, f.applications, items, f.interactions,
                          reads + f.reads, writes \o f.writes)
             ELSE SendStale(f.applications, items, f.interactions, Tail(stale),
                            drafted, now, reads + f.reads, writes \o f.writes)

followup_command(apps, items, inters, stale_days, order, drafted, now) ==
    LET found == find_stale_applications(apps, stale_days, order, now)
    IN  SendStale(apps, items, inters, found.stale, drafted, now,
                  found.reads, << >>)

\* action_log_followup on the Applied tab with the record `app` under the
\* cursor, as the console's last refresh read it, and the text the modal
\* returns (None when it is dismissed). The statuses the tab lists are those
\* of console/stages.py; the action itself sorts them out.
action_log_followup(apps, items, inters, application_id, app, text, now) ==
    IF app.status = "FOLLOW_UP_2"
    THEN Outcome("NoMoreFollowUps", apps, items, inters, 0, << >>)
    ELSE IF app.status \notin { "OUTREACH_SENT", "FOLLOW_UP_1" }
    THEN Outcome("CannotLogFollowUp", apps, items, inters, 0, << >>)
    ELSE IF text = None
    THEN Outcome("dismissed", apps, items, inters, 0, << >>)
    ELSE LET target == IF app.status = "OUTREACH_SENT"
                       THEN "FOLLOW_UP_1" ELSE "FOLLOW_UP_2"
             interaction == Interaction(application_id, "FOLLOW_UP", "outbound",
                                        "console", text, now)
             t == transition(apps, application_id, target, now + 1)
         IN  Outcome(t.result, t.applications, items,
                     Append(inters, interaction), 1 + t.reads,
                     << "interactions" >> \o t.writes)

StaleDaysInputs == { 0, 2 }

OrderInputs == { << "app-1", "app-2" >>, << "app-2", "app-1" >> }

\* One run of the command; it reads the clock whether or not it writes, and
\* counts as a call.
FollowupCommand(stale_days, order, drafted) ==
    LET o == followup_command(applications, work_items, interactions,
                              stale_days, order, drafted, clock)
    IN  /\ calls < MaxCalls
        /\ applications' = o.applications
        /\ work_items' = o.work_items
        /\ interactions' = o.interactions
        /\ clock' = clock + o.reads
        /\ calls' = calls + 1
        /\ last' = Call("followup_command", o.result, o.writes)
        /\ callers' = callers

\* The console is refreshed when it is mounted and after each of its actions:
\* used by one person at a time, it holds the stored record.
LogFollowup(application_id, text) ==
    Returns("action_log_followup",
            action_log_followup(applications, work_items, interactions,
                                application_id, applications[application_id],
                                text, clock))

FollowupCommandCall ==
    \E d \in StaleDaysInputs : \E order \in OrderInputs :
      \E drafted \in SUBSET AppIdInputs :
        FollowupCommand(d, order, drafted)

LogFollowupCall ==
    \E a \in DOMAIN applications : \E text \in { None, "text" } :
      LogFollowup(a, text)

\* Two stored applications: "app-1" anywhere outside the staging statuses,
\* "app-2" scored, contacted, followed up twice or passed.
InitTwo ==
    /\ \E s1 \in ApplicationStatus \ PENDING_STAGING :
       \E s2 \in { "SCORED", "OUTREACH_SENT", "FOLLOW_UP_2", "PASSED" } :
         applications = [ a \in AppIdInputs |->
                            Application("opp-1", IF a = "app-1" THEN s1 ELSE s2, 0) ]
    /\ work_items = << >>
    /\ interactions = << >>
    /\ clock = 1
    /\ calls = 0
    /\ last = Call("none", "ok", << >>)
    /\ callers = [ c \in Callers |-> Idle ]

NextFollowUp ==
    \/ FollowupCommandCall
    \/ LogFollowupCall

SpecFollowUp == InitTwo /\ [][NextFollowUp]_vars

----------------------------------------------------------------------------
(* The work queue used alone, as the orchestrators use it: create_work_item   *)
(* with one of the four staging statuses as pending_status.                   *)

CreateStagingCall ==
    \E a \in AppIdInputs : \E p \in PENDING_STAGING :
      \E r \in RequestsFor(a, p) :
        CreateWorkItem(a, r.work_type, r.draft_content, r.target_status,
                       r.previous_status, p)

NextQueue ==
    \/ CreateStagingCall
    \/ CompleteCall
    \/ SkipCall

SpecQueue == InitTwo /\ [][NextQueue]_vars

----------------------------------------------------------------------------
(* core/database.py: a work item as a row of work_items and back. A datetime  *)
(* column holds the isoformat text, here the empty sequence for NULL and a    *)
(* one-element sequence for a text; the enum columns hold the member's value, *)
(* which is also its name; draft_content is NULL for None.                    *)

_datetime_to_str(dt) ==
    IF dt = NoTime THEN << >> ELSE << dt >>

_str_to_datetime(s) ==
    IF s = << >> THEN NoTime ELSE s[1]

\* The values save_work_item binds, in the order of the columns after id.
WorkItemRow(item) ==
    << item.application_id, item.work_type, item.status, item.title,
       item.instructions, item.draft_content, item.target_status,
       item.previous_status, _datetime_to_str(item.created_at),
       _datetime_to_str(item.completed_at) >>

_row_to_work_item(row) ==
    [ application_id  |-> row[1],
      work_type       |-> row[2],
      status          |-> row[3],
      title           |-> row[4],
      instructions    |-> row[5],
      draft_content   |-> row[6],
      target_status   |-> row[7],
      previous_status |-> row[8],
      created_at      |-> _str_to_datetime(row[9]),
      completed_at    |-> _str_to_datetime(row[10]) ]

----------------------------------------------------------------------------
(* The four operations over a store with two applications. *)

\* An application that was contacted next to one that went silent.
InitPair ==
    /\ applications = [ a \in AppIdInputs |->
                          Application("opp-1",
                                      IF a = "app-1" THEN "OUTREACH_SENT"
                                                     ELSE "GHOSTED", 0) ]
    /\ work_items = << >>
    /\ interactions = << >>
    /\ clock = 1
    /\ calls = 0
    /\ last = Call("none", "ok", << >>)
    /\ callers = [ c \in Callers |-> Idle ]

SpecTwo == InitPair /\ [][Next]_vars

----------------------------------------------------------------------------
(* Properties *)

\* The PENDING work items that reference an application
PendingItemsOf(application_id) ==
    { i \in DOMAIN work_items :
        /\ work_items[i].application_id = application_id
        /\ work_items[i].status = "PENDING" }

\* C1: whenever a call rewrites a stored application, its status goes from s to
\* t along an edge (s, t) of VALID_TRANSITIONS; since no edge is a self-loop, no
\* call stores the status the application already had.
C1_StatusChangesFollowEdges ==
    [][ \A a \in DOMAIN applications :
          /\ a \in DOMAIN applications'
          /\ applications'[a] # applications[a] =>
               /\ applications'[a].status \in
                    VALID_TRANSITIONS[applications[a].status]
               /\ applications'[a].status # applications[a].status ]_vars

\* C1 witness: the status has moved through create_work_item and then through
\* complete_work_item.
C1_Witness ==
    /\ last.op = "complete_work_item"
    /\ last.result = "ok"
    /\ applications["app-1"].updated_at > applications["app-1"].created_at

\* C2: in every reachable store, transition called with a target that is not a
\* legal target from the application's current status ends with
\* InvalidTransition and leaves the applications table as it was; and a
\* transition call that ended with InvalidTransition has changed no stored
\* application, status and updated_at included.
C2_RejectedTransitionChangesNothing ==
    /\ [] ( \A a \in DOMAIN applications, t \in ApplicationStatus :
              t \notin VALID_TRANSITIONS[applications[a].status] =>
                LET r == transition(applications, a, t, clock) IN
                /\ r.result = "InvalidTransition"
                /\ r.applications[a].status = applications[a].status
                /\ r.applications[a].updated_at = applications[a].updated_at
                /\ r.applications = applications )
    /\ [][ ( last'.op = "transition" /\ last'.result = "InvalidTransition" ) =>
             applications' = applications ]_vars

\* C2 witness: a transition call has just been rejected on an application that
\* an earlier call had moved.
C2_Witness ==
    /\ last.op = "transition"
    /\ last.result = "InvalidTransition"
    /\ calls > 0

\* C3: a work item's row changes only from PENDING to COMPLETED in a
\* complete_work_item call or from PENDING to SKIPPED in a skip_work_item call;
\* a COMPLETED or SKIPPED row is never rewritten and no row is ever removed.
C3_WorkItemResolvedOnce ==
    [][ /\ Len(work_items') >= Len(work_items)
        /\ \A i \in DOMAIN work_items :
             work_items'[i] # work_items[i] =>
               /\ work_items[i].status = "PENDING"
               /\ \/ /\ work_items'[i].status = "COMPLETED"
                     /\ last'.op = "complete_work_item"
                  \/ /\ work_items'[i].status = "SKIPPED"
                     /\ last'.op = "skip_work_item" ]_vars

\* C3 witness: a skipped work item whose application a later transition moved on.
C3_Witness ==
    /\ \E i \in DOMAIN work_items : work_items[i].status = "SKIPPED"
    /\ last.op = "transition"
    /\ last.result = "ok"

\* The staging status named after each work kind
StagingFor(work_type) ==
    CASE work_type = "OUTREACH"  -> "OUTREACH_PENDING"
      [] work_type = "FOLLOW_UP" -> "FOLLOW_UP_PENDING"
      [] work_type = "NEGOTIATE" -> "NEGOTIATION_PENDING"
      [] work_type = "ACCEPT"    -> "ACCEPTANCE_PENDING"

\* An application's status is a staging status exactly when one PENDING work
\* item references it.
StagingIffOnePending(a) ==
    applications[a].status \in PENDING_STAGING <=>
        Cardinality(PendingItemsOf(a)) = 1

\* An application is staged with exactly one PENDING work item, or is outside
\* the staging statuses with none.
Paired(a) ==
    \/ /\ applications[a].status \in PENDING_STAGING
       /\ Cardinality(PendingItemsOf(a)) = 1
    \/ /\ applications[a].status \notin PENDING_STAGING
       /\ PendingItemsOf(a) = {}

\* C4 as stated: in every reachable state an application's status is a staging
\* status if and only if exactly one PENDING work item references it.
C4_StagingIffOnePendingItem ==
    \A a \in DOMAIN applications : StagingIffOnePending(a)

\* C4 as amended: complete_work_item, skip_work_item and a create_work_item
\* that stages (one that leaves every application it changed in a staging
\* status) keep each application paired: staged with exactly one PENDING work
\* item, or outside the staging statuses with none. So the equivalence holds
\* in every state these calls alone reach from applications that are outside
\* the staging statuses and have no work item; a direct transition call is
\* what breaks it.
C4_QueueCallsKeepPairing ==
    [][ ( \/ last'.op \in { "complete_work_item", "skip_work_item" }
          \/ /\ last'.op = "create_work_item"
             /\ \A a \in DOMAIN applications :
                  applications'[a] # applications[a] =>
                    applications'[a].status \in PENDING_STAGING ) =>
        \A a \in DOMAIN applications :
          Paired(a) => ( Paired(a)' /\ StagingIffOnePending(a)' ) ]_vars

\* C4 witness: after one work item was resolved, a second create_work_item has
\* staged the application again: one PENDING item, one resolved.
C4_Witness ==
    /\ last.op = "create_work_item"
    /\ last.result = "ok"
    /\ Len(work_items) = 2
    /\ work_items[1].status # "PENDING"
    /\ Paired("app-1")
    /\ applications["app-1"].status \in PENDING_STAGING

AppOf(i) == work_items[i].application_id

\* C6: a complete_work_item call on a PENDING item whose target_status is a
\* legal target from its application's current status succeeds and leaves the
\* application in target_status, the item COMPLETED with completed_at set, and
\* the interactions as before plus exactly one new one, of that application.
C6_CompleteAdvances ==
    [][ \A i \in DOMAIN work_items :
          ( /\ last'.op = "complete_work_item"
            /\ CompleteWorkItem(i)
            /\ work_items[i].status = "PENDING"
            /\ AppOf(i) \in DOMAIN applications
            /\ work_items[i].target_status
                 \in VALID_TRANSITIONS[applications[AppOf(i)].status] ) =>
          ( /\ last'.result = "ok"
            /\ applications'[AppOf(i)].status = work_items[i].target_status
            /\ work_items'[i].status = "COMPLETED"
            /\ work_items'[i].completed_at # NoTime
            /\ work_items'[i].completed_at >= clock
            /\ Len(interactions') = Len(interactions) + 1
            /\ SubSeq(interactions', 1, Len(interactions)) = interactions
            /\ interactions'[Len(interactions')].application_id = AppOf(i) ) ]_vars

\* C6 witness: the outreach item of a SCORED application was completed: the
\* application is in OUTREACH_SENT and one interaction exists.
C6_Witness ==
    /\ last.op = "complete_work_item"
    /\ last.result = "ok"
    /\ Len(work_items) = 1
    /\ work_items[1].status = "COMPLETED"
    /\ work_items[1].target_status = "OUTREACH_SENT"
    /\ applications["app-1"].status = "OUTREACH_SENT"
    /\ Len(interactions) = 1

\* C7: a skip_work_item call on a PENDING item whose previous_status is a legal
\* target from its application's current status succeeds and leaves the
\* application in previous_status, the item SKIPPED with completed_at set, and
\* the interactions exactly as they were.
C7_SkipReverts ==
    [][ \A i \in DOMAIN work_items :
          ( /\ last'.op = "skip_work_item"
            /\ SkipWorkItem(i)
            /\ work_items[i].status = "PENDING"
            /\ AppOf(i) \in DOMAIN applications
            /\ work_items[i].previous_status
                 \in VALID_TRANSITIONS[applications[AppOf(i)].status] ) =>
          ( /\ last'.result = "ok"
            /\ applications'[AppOf(i)].status = work_items[i].previous_status
            /\ work_items'[i].status = "SKIPPED"
            /\ work_items'[i].completed_at # NoTime
            /\ work_items'[i].completed_at >= clock
            /\ interactions' = interactions ) ]_vars

\* C7 witness: the outreach item of a SCORED application was skipped: the
\* application is back in SCORED and no interaction exists.
C7_Witness ==
    /\ last.op = "skip_work_item"
    /\ last.result = "ok"
    /\ work_items[1].status = "SKIPPED"
    /\ work_items[1].previous_status = "SCORED"
    /\ applications["app-1"].status = "SCORED"
    /\ interactions = << >>

\* C8: complete_work_item and skip_work_item called on a COMPLETED or SKIPPED
\* item end with AlreadyResolved and leave the applications, the work items and
\* the interactions as they were.
C8_ResolvedItemRejectsResolution ==
    [][ \A i \in DOMAIN work_items :
          ( /\ last'.op \in { "complete_work_item", "skip_work_item" }
            /\ work_items[i].status \in { "COMPLETED", "SKIPPED" }
            /\ CompleteWorkItem(i) \/ SkipWorkItem(i) ) =>
          ( /\ last'.result = "AlreadyResolved"
            /\ applications' = applications
            /\ work_items' = work_items
            /\ interactions' = interactions ) ]_vars

\* C8 witness: a second complete_work_item on a COMPLETED item was rejected and
\* the one interaction of the first is still the only one.
C8_Witness ==
    /\ last.op = "complete_work_item"
    /\ last.result = "AlreadyResolved"
    /\ Len(work_items) = 1
    /\ work_items[1].status = "COMPLETED"
    /\ Len(interactions) = 1

\* C9: a complete_work_item call on a PENDING item whose target_status is not a
\* legal target from its application's current status ends with
\* InvalidTransition, leaves the work items and the applications as they were,
\* and leaves the interaction it wrote: the interactions are the old ones plus
\* one. So every failed attempt adds one interaction.
C9_FailedCompleteKeepsInteraction ==
    [][ \A i \in DOMAIN work_items :
          ( /\ last'.op = "complete_work_item"
            /\ CompleteWorkItem(i)
            /\ work_items[i].status = "PENDING"
            /\ AppOf(i) \in DOMAIN applications
            /\ work_items[i].target_status
                 \notin VALID_TRANSITIONS[applications[AppOf(i)].status] ) =>
          ( /\ last'.result = "InvalidTransition"
            /\ work_items' = work_items
            /\ work_items'[i].status = "PENDING"
            /\ applications' = applications
            /\ Len(interactions') = Len(interactions) + 1
            /\ SubSeq(interactions', 1, Len(interactions)) = interactions
            /\ interactions'[Len(interactions')].application_id = AppOf(i) ) ]_vars

\* C9 witness: two complete_work_item calls on the only work item have failed;
\* the item is still PENDING and two interactions are stored.
C9_Witness ==
    /\ last.op = "complete_work_item"
    /\ last.result = "InvalidTransition"
    /\ Len(work_items) = 1
    /\ work_items[1].status = "PENDING"
    /\ Len(interactions) = 2

IsPrefix(s, t) ==
    /\ Len(s) <= Len(t)
    /\ \A k \in 1 .. Len(s) : s[k] = t[k]

\* C10 as stated: in a create_work_item, complete_work_item or skip_work_item
\* call every write of a work item or of an interaction comes after a write of
\* the application's status made by the same call.
C10_StatusWrittenFirst ==
    last.op \in { "create_work_item", "complete_work_item", "skip_work_item" } =>
      \A j \in DOMAIN last.writes :
        last.writes[j] # "applications" =>
          \E k \in 1 .. (j - 1) : last.writes[k] = "applications"

\* C10 as amended: create_work_item and skip_work_item write the application's
\* status and then the work item; complete_work_item writes the interaction
\* first, then the application's status, then the work item. A call that fails
\* has made the writes that precede the failure, in that order.
C10_WriteOrder ==
    /\ last.op \in { "create_work_item", "skip_work_item" } =>
         /\ IsPrefix(last.writes, << "applications", "work_items" >>)
         /\ last.result = "ok" => last.writes = << "applications", "work_items" >>
    /\ last.op = "complete_work_item" =>
         /\ IsPrefix(last.writes, << "interactions", "applications", "work_items" >>)
         /\ last.result = "ok" =>
              last.writes = << "interactions", "applications", "work_items" >>
         /\ last.result = "InvalidTransition" => last.writes = << "interactions" >>

\* C10 witness: a complete_work_item call has made its three writes after a
\* create_work_item call had made its two.
C10_Witness ==
    /\ last.op = "complete_work_item"
    /\ last.writes = << "interactions", "applications", "work_items" >>
    /\ \E i \in DOMAIN work_items : work_items[i].status = "COMPLETED"
    /\ calls >= 2

\* C11: in every reachable store, a skip_work_item call that ends in failure
\* (the id is not stored, the item is already resolved, or the transition to
\* its previous_status is rejected) ends with the matching error and leaves the
\* applications, the work items (the item still PENDING in the last case) and
\* the interactions exactly as they were, with no write.
C11_FailedSkipChangesNothing ==
    /\ [] ( \A i \in WorkItemIdInputs :
              LET o == skip_work_item(applications, work_items, interactions,
                                      i, clock)
              IN  /\ i \notin DOMAIN work_items => o.result = "NotFound"
                  /\ ( i \in DOMAIN work_items /\ work_items[i].status # "PENDING" )
                       => o.result = "AlreadyResolved"
                  /\ ( /\ i \in DOMAIN work_items
                       /\ work_items[i].status = "PENDING"
                       /\ work_items[i].previous_status
                            \notin VALID_TRANSITIONS[applications[AppOf(i)].status] )
                       => ( /\ o.result = "InvalidTransition"
                            /\ o.work_items[i].status = "PENDING" )
                  /\ o.result # "ok" =>
                       ( /\ o.applications = applications
                         /\ o.work_items = work_items
                         /\ o.interactions = interactions
                         /\ o.writes = << >> ) )
    /\ [][ ( last'.op = "skip_work_item" /\ last'.result # "ok" ) =>
             ( /\ applications' = applications
               /\ work_items' = work_items
               /\ interactions' = interactions
               /\ last'.writes = << >> ) ]_vars

\* C11 witness: a skip_work_item call was rejected by the state machine (the
\* previous_status of the item is no legal target) and the item is still PENDING.
C11_Witness ==
    /\ last.op = "skip_work_item"
    /\ last.result = "InvalidTransition"
    /\ work_items # << >>
    /\ work_items[1].status = "PENDING"
    /\ work_items[1].previous_status
         \notin VALID_TRANSITIONS[applications["app-1"].status]

\* C12: in every reachable store, create_work_item called for an application
\* that is not stored ends with NotFound (its pending_status is never read:
\* one is tried), and called with a pending_status that
\* is no legal target from the application's current status (any pending_status
\* for an application in PASSED) ends with InvalidTransition; either way no work
\* item is written and the applications are as they were. A create_work_item
\* call that failed has changed nothing in the store.
C12_FailedCreateWritesNothing ==
    /\ [] ( \A a \in AppIdInputs : \A p \in TargetsFor(a) :
            \A r \in RequestsFor(a, p) :
              LET o == create_work_item(applications, work_items, interactions,
                                        a, r.work_type, "title", "instructions",
                                        r.draft_content, r.target_status,
                                        r.previous_status, p, clock)
                  t == transition(applications, a, p, clock)
              IN  /\ a \notin DOMAIN applications => o.result = "NotFound"
                  /\ ( /\ a \in DOMAIN applications
                       /\ p \notin VALID_TRANSITIONS[applications[a].status] )
                       => o.result = "InvalidTransition"
                  /\ ( a \in DOMAIN applications /\ applications[a].status = "PASSED" )
                       => o.result = "InvalidTransition"
                  /\ t.result # "ok" =>
                       ( /\ o.result = t.result
                         /\ o.work_items = work_items
                         /\ o.applications = applications
                         /\ o.interactions = interactions
                         /\ o.writes = << >> ) )
    /\ [][ ( last'.op = "create_work_item" /\ last'.result # "ok" ) =>
             ( /\ applications' = applications
               /\ work_items' = work_items
               /\ interactions' = interactions
               /\ last'.writes = << >> ) ]_vars

\* C12 witness: create_work_item was rejected for an application in PASSED that
\* an earlier call had moved there, and no work item exists.
C12_Witness ==
    /\ last.op = "create_work_item"
    /\ last.result = "InvalidTransition"
    /\ applications["app-1"].status = "PASSED"
    /\ applications["app-1"].updated_at > applications["app-1"].created_at
    /\ work_items = << >>

\* The requests tried with pending_status p: every request of RequestInputs for
\* the pending_status values callers pass, one request no orchestrator makes for
\* the others.
RequestsWith(p) ==
    IF p \in PendingInputs
    THEN RequestInputs
    ELSE { Request("FOLLOW_UP", None, "DISCOVERED", "PASSED") }

\* C13: in every reachable store and for every stored application, every
\* pending_status and every request tried, create_work_item succeeds exactly
\* when pending_status is a legal target from the application's current status,
\* whatever target_status and previous_status are; when it succeeds the
\* application's status is pending_status and exactly one work item is added,
\* PENDING, with no completed_at, and with the target_status and
\* previous_status that were passed. A create_work_item call that succeeded
\* has added one such item and moved its application along an edge.
C13_CreateSucceedsIffPendingLegal ==
    /\ [] ( \A a \in DOMAIN applications, p \in ApplicationStatus :
            \A r \in RequestsWith(p) :
              LET o == create_work_item(applications, work_items, interactions,
                                        a, r.work_type, "title", "instructions",
                                        r.draft_content, r.target_status,
                                        r.previous_status, p, clock)
                  n == Len(work_items)
              IN  /\ o.result = "ok" <=> p \in VALID_TRANSITIONS[applications[a].status]
                  /\ o.result = "ok" =>
                       ( /\ o.applications[a].status = p
                         /\ Len(o.work_items) = n + 1
                         /\ SubSeq(o.work_items, 1, n) = work_items
                         /\ o.work_items[n + 1].application_id = a
                         /\ o.work_items[n + 1].status = "PENDING"
                         /\ o.work_items[n + 1].completed_at = NoTime
                         /\ o.work_items[n + 1].target_status = r.target_status
                         /\ o.work_items[n + 1].previous_status = r.previous_status ) )
    /\ [][ ( last'.op = "create_work_item" /\ last'.result = "ok" ) =>
             LET n == Len(work_items) IN
             /\ Len(work_items') = n + 1
             /\ SubSeq(work_items', 1, n) = work_items
             /\ work_items'[n + 1].status = "PENDING"
             /\ work_items'[n + 1].completed_at = NoTime
             /\ applications'[work_items'[n + 1].application_id].status
                  \in VALID_TRANSITIONS[
                        applications[work_items'[n + 1].application_id].status] ]_vars

\* C13 witness: create_work_item succeeded with a target_status no edge leads
\* to from the staging status and a terminal previous_status: the application
\* is staged and the item is PENDING with the values passed.
C13_Witness ==
    /\ last.op = "create_work_item"
    /\ last.result = "ok"
    /\ Len(work_items) = 1
    /\ work_items[1].status = "PENDING"
    /\ work_items[1].completed_at = NoTime
    /\ work_items[1].target_status = "DISCOVERED"
    /\ work_items[1].previous_status = "PASSED"
    /\ applications["app-1"].status \in PENDING_STAGING

\* C14: in every reachable store, transition called with a target that
\* can_transition allows from the application's current status succeeds, stores
\* the application with status equal to the target and updated_at equal to the
\* time of the call, leaves its key, opportunity_id, created_at and score as
\* they were, and returns a record equal to the stored one. A transition call
\* that succeeded has changed status and updated_at of the stored application
\* and nothing else.
C14_TransitionStoresAndReturns ==
    /\ [] ( \A a \in DOMAIN applications, t \in ApplicationStatus :
              can_transition(applications[a].status, t) =>
                LET r == transition(applications, a, t, clock) IN
                /\ r.result = "ok"
                /\ DOMAIN r.applications = DOMAIN applications
                /\ r.applications[a].status = t
                /\ r.applications[a].updated_at = clock
                /\ r.applications[a].updated_at > applications[a].updated_at
                /\ r.applications[a].opportunity_id = applications[a].opportunity_id
                /\ r.applications[a].created_at = applications[a].created_at
                /\ r.applications[a].score = applications[a].score
                /\ r.value = r.applications[a] )
    /\ [][ ( last'.op = "transition" /\ last'.result = "ok" ) =>
             /\ DOMAIN applications' = DOMAIN applications
             /\ \A a \in DOMAIN applications :
                  /\ can_transition(applications[a].status, applications'[a].status)
                  /\ applications'[a] =
                       [ applications[a] EXCEPT !.status = applications'[a].status,
                                                !.updated_at = clock ] ]_vars

\* C14 witness: a transition call succeeded: the stored application carries a
\* later updated_at and the opportunity_id, created_at and score it was created
\* with.
C14_Witness ==
    /\ last.op = "transition"
    /\ last.result = "ok"
    /\ applications["app-1"].updated_at > applications["app-1"].created_at
    /\ applications["app-1"] =
         [ Application("opp-1", applications["app-1"].status, 0)
             EXCEPT !.updated_at = applications["app-1"].updated_at ]

\* C15: in every reachable store, transition called with an application_id that
\* is not stored, and complete_work_item and skip_work_item called with a
\* work_item_id that is not stored, end with NotFound, write nothing and leave
\* the applications, the work items and the interactions as they were. A call
\* of one of the three that ended with NotFound has changed nothing.
C15_UnknownIdNotFound ==
    /\ [] ( /\ \A a \in AppIdInputs \ DOMAIN applications, t \in ApplicationStatus :
                LET r == transition(applications, a, t, clock) IN
                /\ r.result = "NotFound"
                /\ r.applications = applications
                /\ r.writes = << >>
            /\ \A i \in WorkItemIdInputs \ DOMAIN work_items :
                LET c == complete_work_item(applications, work_items,
                                            interactions, i, clock)
                    k == skip_work_item(applications, work_items,
                                        interactions, i, clock)
                IN  /\ c.result = "NotFound"
                    /\ k.result = "NotFound"
                    /\ c = Outcome("NotFound", applications, work_items,
                                   interactions, 0, << >>)
                    /\ k = c )
    /\ [][ ( /\ last'.op \in { "transition", "complete_work_item", "skip_work_item" }
             /\ last'.result = "NotFound" ) =>
             ( /\ applications' = applications
               /\ work_items' = work_items
               /\ interactions' = interactions
               /\ last'.writes = << >> ) ]_vars

\* C15 witness: transition was called for "app-2", which is not stored, after a
\* work item had been created for "app-1": it ended with NotFound.
C15_Witness ==
    /\ last.op = "transition"
    /\ last.result = "NotFound"
    /\ "app-2" \notin DOMAIN applications
    /\ work_items # << >>

\* The statuses the lifecycle ends in.
TerminalStatuses == { "ACCEPTED", "REJECTED", "PASSED" }

\* C16: in every reachable store, transition called with any target on an
\* application whose status is ACCEPTED, REJECTED or PASSED ends with
\* InvalidTransition, its error names that status as current and its message
\* carries the terminal-state marker in place of valid targets, and the
\* applications stay as they were; no call of transition, create_work_item,
\* complete_work_item or skip_work_item changes the status of such an
\* application, and a transition call made while every stored application is
\* terminal does not succeed.
C16_TerminalStaysTerminal ==
    /\ [] ( \A a \in DOMAIN applications, t \in ApplicationStatus :
              applications[a].status \in TerminalStatuses =>
                LET r == transition(applications, a, t, clock) IN
                /\ r.result = "InvalidTransition"
                /\ r.value.current = applications[a].status
                /\ r.value.target = t
                /\ message(r.value).valid_str = << TerminalMarker >>
                /\ r.applications = applications )
    /\ [][ \A a \in DOMAIN applications :
             applications[a].status \in TerminalStatuses =>
               /\ a \in DOMAIN applications'
               /\ applications'[a].status = applications[a].status ]_vars
    /\ [][ ( /\ last'.op = "transition"
             /\ \A a \in DOMAIN applications :
                  applications[a].status \in TerminalStatuses ) =>
             last'.result \in { "InvalidTransition", "NotFound" } ]_vars

\* C16 witness: an application that a call moved into a terminal status has
\* since had a transition call rejected, with a resolved work item behind it.
C16_Witness ==
    /\ last.op = "transition"
    /\ last.result = "InvalidTransition"
    /\ applications["app-1"].status \in TerminalStatuses
    /\ applications["app-1"].updated_at > applications["app-1"].created_at
    /\ work_items # << >>

\* C17: for each of the terminal statuses ACCEPTED, REJECTED and PASSED and for
\* every status X of the 18, can_transition(terminal, X) is false; in every
\* reachable store, an application in a terminal status has no status that
\* can_transition accepts as its target.
C17_TerminalHasNoEdge ==
    /\ \A T \in TerminalStatuses, X \in ApplicationStatus : ~ can_transition(T, X)
    /\ \A a \in DOMAIN applications :
          applications[a].status \in TerminalStatuses =>
            { X \in ApplicationStatus :
                can_transition(applications[a].status, X) } = {}

\* C17 witness: a transition call on an application in PASSED, a status it was
\* moved into, was rejected.
C17_Witness ==
    /\ last.op = "transition"
    /\ last.result = "InvalidTransition"
    /\ applications["app-1"].status = "PASSED"
    /\ applications["app-1"].updated_at > applications["app-1"].created_at

\* C18: for every status X of the 18, can_transition(X, X) is false; in every
\* reachable store, transition called with the status the application already
\* has as target ends with InvalidTransition.
C18_NoSelfTransition ==
    /\ Cardinality(ApplicationStatus) = 18
    /\ \A X \in ApplicationStatus : ~ can_transition(X, X)
    /\ \A a \in DOMAIN applications :
          transition(applications, a, applications[a].status, clock).result
            = "InvalidTransition"

\* C18 witness: a transition call was rejected on an application staged in
\* FOLLOW_UP_PENDING by create_work_item, a status with three targets.
C18_Witness ==
    /\ last.op = "transition"
    /\ last.result = "InvalidTransition"
    /\ applications["app-1"].status = "FOLLOW_UP_PENDING"
    /\ Cardinality(VALID_TRANSITIONS["FOLLOW_UP_PENDING"]) = 3
    /\ PendingItemsOf("app-1") # {}

\* C19: can_transition(GHOSTED, RESPONSE_RECEIVED) is true and
\* can_transition(GHOSTED, X) is false for every other status X; in every
\* reachable store, transition on an application in GHOSTED succeeds for the
\* target RESPONSE_RECEIVED and ends with InvalidTransition for every other.
C19_GhostedOnlyToResponseReceived ==
    /\ \A X \in ApplicationStatus :
          can_transition("GHOSTED", X) <=> X = "RESPONSE_RECEIVED"
    /\ \A a \in DOMAIN applications, X \in ApplicationStatus :
          applications[a].status = "GHOSTED" =>
            transition(applications, a, X, clock).result =
              IF X = "RESPONSE_RECEIVED" THEN "ok" ELSE "InvalidTransition"

\* C19 witness: a transition call was rejected on an application in GHOSTED, a
\* status it was moved into.
C19_Witness ==
    /\ last.op = "transition"
    /\ last.result = "InvalidTransition"
    /\ applications["app-1"].status = "GHOSTED"
    /\ applications["app-1"].updated_at > applications["app-1"].created_at

\* C20 as stated: in every reachable store, for the staging status P an
\* application is in and statuses A # B, if A -> P and P -> B are edges then
\* A -> B is an edge.
C20_TwoStepPathHasDirectEdge ==
    \A a \in DOMAIN applications :
        LET P == applications[a].status IN
        P \in PENDING_STAGING =>
          \A A \in ApplicationStatus, B \in ApplicationStatus :
            ( A # B /\ can_transition(A, P) /\ can_transition(P, B) ) =>
                can_transition(A, B)

\* The two-step paths through FOLLOW_UP_PENDING that join the two follow-up
\* rounds it serves.
MixedFollowUpPaths ==
    { << "OUTREACH_SENT", "FOLLOW_UP_PENDING", "FOLLOW_UP_2" >>,
      << "FOLLOW_UP_1", "FOLLOW_UP_PENDING", "OUTREACH_SENT" >> }

\* C20: in every reachable store, for the staging status P an application is
\* in and statuses A # B, if A -> P and P -> B are edges then A -> B is an
\* edge, except on the two paths OUTREACH_SENT -> FOLLOW_UP_PENDING ->
\* FOLLOW_UP_2 and FOLLOW_UP_1 -> FOLLOW_UP_PENDING -> OUTREACH_SENT, which are
\* paths and have no direct edge.
C20_TwoStepPathHasDirectEdgeButMixedFollowUps ==
    /\ \A a \in DOMAIN applications :
          LET P == applications[a].status IN
          P \in PENDING_STAGING =>
            \A A \in ApplicationStatus, B \in ApplicationStatus :
              ( A # B /\ can_transition(A, P) /\ can_transition(P, B) ) =>
                ( can_transition(A, B) <=> << A, P, B >> \notin MixedFollowUpPaths )
    /\ \A m \in MixedFollowUpPaths :
          can_transition(m[1], m[2]) /\ can_transition(m[2], m[3])

\* C20 witness: create_work_item staged an application in FOLLOW_UP_PENDING
\* with FOLLOW_UP_2 as the target of its item: the staging status both
\* follow-up rounds go through.
C20_Witness ==
    /\ last.op = "create_work_item"
    /\ last.result = "ok"
    /\ applications["app-1"].status = "FOLLOW_UP_PENDING"
    /\ work_items[Len(work_items)].status = "PENDING"
    /\ work_items[Len(work_items)].target_status = "FOLLOW_UP_2"

\* C21: for every edge A -> P of the graph with P a pending-staging status,
\* P -> A is an edge; in every reachable store, an application in a staging
\* status can be moved by transition to each status that has an edge into it.
C21_StagingHasEdgeBack ==
    /\ \A P \in PENDING_STAGING, A \in ApplicationStatus :
          can_transition(A, P) => can_transition(P, A)
    /\ \A a \in DOMAIN applications, A \in ApplicationStatus :
          ( /\ applications[a].status \in PENDING_STAGING
            /\ can_transition(A, applications[a].status) ) =>
            /\ transition(applications, a, A, clock).result = "ok"
            /\ transition(applications, a, A, clock).applications[a].status = A

\* C21 witness: a follow-up item was skipped and its application, staged in
\* FOLLOW_UP_PENDING from OUTREACH_SENT, is back in OUTREACH_SENT.
C21_Witness ==
    /\ last.op = "skip_work_item"
    /\ last.result = "ok"
    /\ calls = 2
    /\ work_items[1].status = "SKIPPED"
    /\ work_items[1].work_type = "FOLLOW_UP"
    /\ work_items[1].previous_status = "OUTREACH_SENT"
    /\ applications["app-1"].status = "OUTREACH_SENT"

\* C22: in every reachable store, transition accepts INTERVIEW_COMPLETED for an
\* application in INTERVIEW_SCHEDULED, and both INTERVIEW_SCHEDULED and
\* OFFER_RECEIVED for an application in INTERVIEW_COMPLETED, each call leaving
\* the application in the target: any number of rounds followed by
\* OFFER_RECEIVED is accepted step by step.
C22_InterviewRoundsRepeat ==
    /\ can_transition("INTERVIEW_COMPLETED", "INTERVIEW_SCHEDULED")
    /\ can_transition("INTERVIEW_COMPLETED", "OFFER_RECEIVED")
    /\ \A a \in DOMAIN applications :
          LET Accepted(t) ==
                LET r == transition(applications, a, t, clock)
                IN  r.result = "ok" /\ r.applications[a].status = t
          IN  /\ applications[a].status = "INTERVIEW_SCHEDULED" =>
                   Accepted("INTERVIEW_COMPLETED")
              /\ applications[a].status = "INTERVIEW_COMPLETED" =>
                   Accepted("INTERVIEW_SCHEDULED") /\ Accepted("OFFER_RECEIVED")

\* C22 witness: three transition calls in a row succeeded, no work item was
\* ever created, and the application is in INTERVIEW_COMPLETED, which only
\* INTERVIEW_SCHEDULED leads to.
C22_Witness ==
    /\ last.op = "transition"
    /\ last.result = "ok"
    /\ calls = 3
    /\ work_items = << >>
    /\ applications["app-1"].status = "INTERVIEW_COMPLETED"
    /\ applications["app-1"].updated_at > applications["app-1"].created_at

\* C23: in every reachable store, transition accepts NEGOTIATING for an
\* application in OFFER_RECEIVED and OFFER_RECEIVED for one in NEGOTIATING, and
\* from either of the two statuses it accepts ACCEPTANCE_PENDING and ACCEPTED,
\* each call leaving the application in the target: any number of round trips
\* is accepted.
C23_NegotiationLoops ==
    /\ can_transition("OFFER_RECEIVED", "NEGOTIATING")
    /\ can_transition("NEGOTIATING", "OFFER_RECEIVED")
    /\ \A a \in DOMAIN applications :
          LET Accepted(t) ==
                LET r == transition(applications, a, t, clock)
                IN  r.result = "ok" /\ r.applications[a].status = t
          IN  /\ applications[a].status = "OFFER_RECEIVED" =>
                   Accepted("NEGOTIATING")
              /\ applications[a].status = "NEGOTIATING" =>
                   Accepted("OFFER_RECEIVED")
              /\ applications[a].status \in { "OFFER_RECEIVED", "NEGOTIATING" } =>
                   Accepted("ACCEPTANCE_PENDING") /\ Accepted("ACCEPTED")

\* C23 witness: three transition calls in a row succeeded, no work item was
\* ever created, and the application is in NEGOTIATING.
C23_Witness ==
    /\ last.op = "transition"
    /\ last.result = "ok"
    /\ calls = 3
    /\ work_items = << >>
    /\ applications["app-1"].status = "NEGOTIATING"

\* What one step does to the applications already stored, given the status a
\* new application enters with: none is removed, a new one has that status, and
\* one whose record differs is as a successful transition call to its new
\* status leaves it.
EntersAndMovesByTransition(entry) ==
    /\ DOMAIN applications \subseteq DOMAIN applications'
    /\ \A a \in DOMAIN applications' \ DOMAIN applications :
          applications'[a].status = entry
    /\ \A a \in DOMAIN applications :
          applications'[a] # applications[a] =>
            \E k \in 0 .. 1 :
              LET t == transition(applications, a, applications'[a].status,
                                  clock + k)
              IN  t.result = "ok" /\ t.applications[a] = applications'[a]

\* C24 as stated: every application enters the store with status DISCOVERED,
\* and every later change of its stored record is the one a transition call
\* makes.
C24_EntersDiscovered ==
    [][ EntersAndMovesByTransition("DISCOVERED") ]_vars

\* C24: every application enters the store with status SCORED, during a
\* score_opportunities call, and every later change of its stored record is
\* the one a successful transition call makes, during a call of transition,
\* create_work_item, complete_work_item or skip_work_item.
C24_EntersScored ==
    [][ /\ EntersAndMovesByTransition("SCORED")
        /\ DOMAIN applications' # DOMAIN applications =>
             last'.op = "score_opportunities"
        /\ ( \E a \in DOMAIN applications : applications'[a] # applications[a] ) =>
             last'.op \in { "transition", "create_work_item",
                            "complete_work_item", "skip_work_item" } ]_vars

\* C24 witness: an application the scorer stored has been moved by a transition
\* call, beside one that is still as the scorer stored it.
C24_Witness ==
    /\ last.op = "transition"
    /\ last.result = "ok"
    /\ \E a \in DOMAIN applications :
          /\ applications[a].status # "SCORED"
          /\ applications[a].updated_at > applications[a].created_at
    /\ \E a \in DOMAIN applications :
          /\ applications[a].status = "SCORED"
          /\ applications[a].updated_at = applications[a].created_at

\* C25: every call of transition, create_work_item, complete_work_item and
\* skip_work_item leaves the interactions already stored as they were; the
\* interactions change only during a complete_work_item call, by one new
\* interaction, and the three other calls leave them unchanged.
C25_InteractionsAppendOnly ==
    [][ /\ IsPrefix(interactions, interactions')
        /\ interactions' # interactions =>
             ( /\ last'.op = "complete_work_item"
               /\ Len(interactions') = Len(interactions) + 1 )
        /\ last'.op \in { "transition", "create_work_item", "skip_work_item" } =>
             interactions' = interactions ]_vars

\* C25 witness: two complete_work_item calls have each left an interaction,
\* the first still in its place, and a call that is no complete_work_item came
\* after them.
C25_Witness ==
    /\ last.op \in { "transition", "create_work_item", "skip_work_item" }
    /\ Len(interactions) = 2
    /\ interactions[1].created_at < interactions[2].created_at

\* C26: a complete_work_item call on a PENDING item appends one interaction
\* that references the item's application, has type FOLLOW_UP when the work
\* kind is FOLLOW_UP and EMAIL_SENT when it is OUTREACH, NEGOTIATE or ACCEPT,
\* direction outbound, channel email, and the item's draft_content as content
\* (absent when the draft is absent).
C26_CompletionInteraction ==
    [][ \A i \in DOMAIN work_items :
          ( /\ last'.op = "complete_work_item"
            /\ CompleteWorkItem(i)
            /\ work_items[i].status = "PENDING" ) =>
          LET n == Len(interactions')
              x == interactions'[n]
              w == work_items[i]
          IN  /\ n = Len(interactions) + 1
              /\ x.application_id = w.application_id
              /\ w.work_type = "FOLLOW_UP" => x.type = "FOLLOW_UP"
              /\ w.work_type \in { "OUTREACH", "NEGOTIATE", "ACCEPT" } =>
                   x.type = "EMAIL_SENT"
              /\ w.work_type \in WorkType
              /\ x.direction = "outbound"
              /\ x.channel = "email"
              /\ x.content = w.draft_content
              /\ w.draft_content = None => x.content = None ]_vars

\* C26 witness: an ACCEPT item without a draft was completed: its interaction
\* is an EMAIL_SENT with no content.
C26_Witness ==
    /\ last.op = "complete_work_item"
    /\ last.result = "ok"
    /\ Len(work_items) = 1
    /\ work_items[1].work_type = "ACCEPT"
    /\ work_items[1].draft_content = None
    /\ Len(interactions) = 1
    /\ interactions[1].type = "EMAIL_SENT"
    /\ interactions[1].content = None

\* The place of a status in the sorted order of the status names.
Rank(s) == CHOOSE n \in DOMAIN SortedStatuses : SortedStatuses[n] = s

\* C27: in every reachable store, a transition call that ends with
\* InvalidTransition raises an error that carries the application's current
\* status, the requested target and the application's id; its message lists
\* the legal targets from the current status, each once, in sorted order, and
\* the list is not empty, when the current status has a legal target, and
\* carries the terminal-state marker instead exactly when it has none, which is
\* so for ACCEPTED, REJECTED and PASSED only.
C27_InvalidTransitionDiagnostics ==
    \A a \in DOMAIN applications :
        LET cur   == applications[a].status
            valid == VALID_TRANSITIONS[cur]
            m     == message(transition(applications, a, cur, clock).value)
            list  == m.valid_str
        IN  /\ \A t \in ApplicationStatus \ valid :
                  LET r == transition(applications, a, t, clock) IN
                  /\ r.result = "InvalidTransition"
                  /\ r.value.current = cur
                  /\ r.value.target = t
                  /\ r.value.application_id = a
            /\ m.from = cur /\ m.to = cur /\ m.application_id = a
            /\ valid = {} <=> list = << TerminalMarker >>
            /\ valid = {} <=> cur \in TerminalStatuses
            /\ valid # {} =>
                  /\ list # << >>
                  /\ { list[k] : k \in DOMAIN list } = valid
                  /\ Len(list) = Cardinality(valid)
                  /\ \A j \in DOMAIN list, k \in DOMAIN list :
                        j < k => Rank(list[j]) < Rank(list[k])

\* C27 witness: a transition call was rejected on an application in
\* OFFER_RECEIVED, a status it was moved into and that has five legal targets.
C27_Witness ==
    /\ last.op = "transition"
    /\ last.result = "InvalidTransition"
    /\ applications["app-1"].status = "OFFER_RECEIVED"
    /\ applications["app-1"].updated_at > applications["app-1"].created_at
    /\ Len(valid_str("OFFER_RECEIVED")) = 5

\* C28: transition takes no lock and checks no version: a caller that has read
\* an application may be overtaken by another caller's read and write; and a
\* caller whose target is legal from the status it read succeeds and leaves
\* the application stored with its target, whatever was stored in between,
\* overwriting the other caller's write.
C28_LastWriteWins ==
    [][ \A c \in Callers :
          ( /\ callers[c].pc = "validating"
            /\ callers'[c].pc = "returned"
            /\ can_transition(callers[c].app.status, callers[c].target) ) =>
          ( /\ callers'[c].result = "ok"
            /\ last'.result = "ok"
            /\ applications'[callers[c].application_id] =
                 [ callers[c].app EXCEPT !.status = callers[c].target,
                                         !.updated_at = clock ] ) ]_vars

\* C28 witness: both callers read the same record before either wrote, both
\* calls succeeded, "c1" wrote first, and the stored status is the target of
\* "c2", which is no legal target from the status "c1" stored.
C28_Witness ==
    /\ callers["c1"].pc = "returned" /\ callers["c1"].result = "ok"
    /\ callers["c2"].pc = "returned" /\ callers["c2"].result = "ok"
    /\ callers["c1"].application_id = "app-1"
    /\ callers["c2"].application_id = "app-1"
    /\ callers["c1"].app = callers["c2"].app
    /\ callers["c1"].app.updated_at = 0
    /\ calls = 2
    /\ applications["app-1"].status = callers["c2"].target
    /\ applications["app-1"].updated_at = 2
    /\ ~ can_transition(callers["c1"].target, callers["c2"].target)

\* C29: a call that stops between two of its writes leaves the earlier writes
\* stored: create_work_item stopped after its status write leaves the
\* application in pending_status and the work items as they were;
\* complete_work_item stopped after its status write leaves the application in
\* the item's target_status, and skip_work_item in its previous_status, with
\* the item still PENDING. (A create_work_item call that stops before it
\* writes the item leaves the same store whatever item it was asked to write.)
C29_StoppedCallKeepsEarlierWrites ==
    [][ last'.result = "stopped" =>
        /\ last'.op = "create_work_item" =>
             \A a \in DOMAIN applications, p \in PendingInputs :
               CreateWorkItemStopped(a, "OUTREACH", "draft", "OUTREACH_SENT",
                                     "SCORED", p, 1) =>
               ( /\ applications'[a].status = p
                 /\ applications[a].status # p
                 /\ work_items' = work_items
                 /\ interactions' = interactions )
        /\ last'.op = "complete_work_item" =>
             \A i \in DOMAIN work_items :
               CompleteWorkItemStopped(i, 2) =>
               ( /\ applications'[AppOf(i)].status = work_items[i].target_status
                 /\ applications[AppOf(i)].status # work_items[i].target_status
                 /\ work_items' = work_items
                 /\ work_items'[i].status = "PENDING"
                 /\ Len(interactions') = Len(interactions) + 1 )
        /\ last'.op = "skip_work_item" =>
             \A i \in DOMAIN work_items :
               SkipWorkItemStopped(i, 1) =>
               ( /\ applications'[AppOf(i)].status = work_items[i].previous_status
                 /\ applications[AppOf(i)].status # work_items[i].previous_status
                 /\ work_items' = work_items
                 /\ work_items'[i].status = "PENDING"
                 /\ interactions' = interactions ) ]_vars

\* C29 witness: a complete_work_item call stopped after its status write: the
\* interaction and the target status are stored and the item is still PENDING
\* on an application that is no longer staged.
C29_Witness ==
    /\ last.op = "complete_work_item"
    /\ last.result = "stopped"
    /\ last.writes = << "interactions", "applications" >>
    /\ Len(work_items) = 1
    /\ work_items[1].status = "PENDING"
    /\ applications["app-1"].status = work_items[1].target_status
    /\ applications["app-1"].status \notin PENDING_STAGING
    /\ Len(interactions) = 1

\* C30: in every reachable store, the work done and work skip commands given
\* an item that is not PENDING report that it is already resolved and return
\* normally, without the AlreadyResolved error a call of complete_work_item or
\* skip_work_item would raise, and write nothing; a command that ended so has
\* left the applications, the work items and the interactions as they were.
C30_CommandsReportResolvedItem ==
    /\ [] ( \A i \in DOMAIN work_items :
              work_items[i].status # "PENDING" =>
                LET d == done_command(applications, work_items, interactions,
                                      i, clock)
                    k == skip_command(applications, work_items, interactions,
                                      i, clock)
                    c == complete_work_item(applications, work_items,
                                            interactions, i, clock)
                IN  /\ d = Outcome("AlreadyReported", applications, work_items,
                                   interactions, 0, << >>)
                    /\ k = d
                    /\ c.result = "AlreadyResolved"
                    /\ d.result # c.result )
    /\ [][ ( /\ last'.op \in { "done_command", "skip_command" }
             /\ last'.result = "AlreadyReported" ) =>
             ( /\ applications' = applications
               /\ work_items' = work_items
               /\ interactions' = interactions
               /\ last'.writes = << >>
               /\ \E i \in DOMAIN work_items : work_items[i].status # "PENDING" ) ]_vars

\* C30 witness: work done was run a second time on an item it had completed:
\* it reported the item and the one interaction of the first run is the only
\* one.
C30_Witness ==
    /\ last.op = "done_command"
    /\ last.result = "AlreadyReported"
    /\ Len(work_items) = 1
    /\ work_items[1].status = "COMPLETED"
    /\ Len(interactions) = 1

\* The statuses of a walk, each reached from the one before by an edge.
LegalWalk(walk) ==
    \A k \in 1 .. (Len(walk) - 1) : can_transition(walk[k], walk[k + 1])

\* C31: in every reachable store, send_outreach on a SCORED application succeeds
\* and stores OUTREACH_PENDING and then OUTREACH_SENT; send_followup on an
\* application in OUTREACH_SENT or FOLLOW_UP_1 first stores FOLLOW_UP_PENDING,
\* and succeeds exactly when the given target has an edge from there, the target
\* being stored last; whatever the status and the target, the statuses a helper
\* stores form a walk of legal edges from the stored status, and a successful
\* call leaves exactly one Interaction more.
C31_SendHelpersStageFirst ==
    \A a \in DOMAIN applications :
      LET s == applications[a].status
          o == send_outreach(applications, work_items, interactions, a, clock)
      IN  /\ LegalWalk(<< s >> \o o.statuses)
          /\ o.result = "ok" => Len(o.interactions) = Len(interactions) + 1
          /\ s = "SCORED" =>
               /\ o.result = "ok"
               /\ o.statuses = << "OUTREACH_PENDING", "OUTREACH_SENT" >>
               /\ o.applications[a].status = "OUTREACH_SENT"
          /\ \A t \in ApplicationStatus :
               LET f == send_followup(applications, work_items, interactions,
                                      a, t, clock)
               IN  /\ LegalWalk(<< s >> \o f.statuses)
                   /\ f.result = "ok" =>
                        Len(f.interactions) = Len(interactions) + 1
                   /\ s \in { "OUTREACH_SENT", "FOLLOW_UP_1" } =>
                        /\ f.statuses # << >>
                        /\ f.statuses[1] = "FOLLOW_UP_PENDING"
                        /\ f.result = "ok" <=> can_transition("FOLLOW_UP_PENDING", t)
                        /\ f.result = "ok" =>
                             /\ f.statuses = << "FOLLOW_UP_PENDING", t >>
                             /\ f.applications[a].status = t

\* C31 witness: the one call of the run was a send_outreach that succeeded: the
\* application it found in SCORED is in OUTREACH_SENT after two status writes
\* with the one Interaction written between them.
C31_Witness ==
    /\ calls = 1
    /\ last = Call("send_outreach", "ok",
                   << "applications", "interactions", "applications" >>)
    /\ applications["app-1"].status = "OUTREACH_SENT"
    /\ Len(interactions) = 1

C33_ItemOfClosedApplicationStaysPending ==
    /\ [] ( \A i \in DOMAIN work_items :
              ( /\ work_items[i].status = "PENDING"
                /\ applications[AppOf(i)].status \in TerminalStatuses ) =>
                LET c == complete_work_item(applications, work_items,
                                            interactions, i, clock)
                    k == skip_work_item(applications, work_items,
                                        interactions, i, clock)
                IN  /\ c.result = "InvalidTransition"
                    /\ c.applications = applications
                    /\ c.work_items = work_items
                    /\ Len(c.interactions) = Len(interactions) + 1
                    /\ SubSeq(c.interactions, 1, Len(interactions)) = interactions
                    /\ c.interactions[Len(c.interactions)].application_id = AppOf(i)
                    /\ k = Outcome("InvalidTransition", applications, work_items,
                                   interactions, 0, << >>) )
    /\ [][ \A i \in DOMAIN work_items :
             ( /\ work_items[i].status = "PENDING"
               /\ applications[AppOf(i)].status \in TerminalStatuses ) =>
               ( /\ work_items'[i] = work_items[i]
                 /\ applications'[AppOf(i)].status
                      = applications[AppOf(i)].status ) ]_vars

\* C33 witness: a work item was created, its application was then closed by a
\* direct transition, and the complete_work_item call that followed failed
\* with InvalidTransition after writing its Interaction; the item is PENDING.
C33_Witness ==
    /\ calls = 3
    /\ last = Call("complete_work_item", "InvalidTransition", << "interactions" >>)
    /\ Len(work_items) = 1
    /\ work_items[1].status = "PENDING"
    /\ applications["app-1"].status = "PASSED"
    /\ Len(interactions) = 1

\* C34: with the queue used alone on applications that start outside the
\* staging statuses, in every reachable store no staging status has an edge to
\* a staging status, no application has more than one PENDING work item, an
\* application that has one is in a staging status, and create_work_item on it
\* with any staging pending_status and any request fails with
\* InvalidTransition, leaving the three tables as they were with no write.
C34_OnePendingItemPerApplication ==
    \A a \in DOMAIN applications :
      /\ \A p, q \in PENDING_STAGING : ~ can_transition(p, q)
      /\ Cardinality(PendingItemsOf(a)) <= 1
      /\ PendingItemsOf(a) # {} =>
           /\ applications[a].status \in PENDING_STAGING
           /\ \A p \in PENDING_STAGING : \A r \in RequestInputs :
                create_work_item(applications, work_items, interactions, a,
                                 r.work_type, "title", "instructions",
                                 r.draft_content, r.target_status,
                                 r.previous_status, p, clock)
                  = Outcome("InvalidTransition", applications, work_items,
                            interactions, 0, << >>)

\* C34 witness: "app-1" has its one PENDING work item, "app-2", in SCORED, has
\* none, and the create_work_item call just made was rejected without a write.
C34_Witness ==
    /\ last = Call("create_work_item", "InvalidTransition", << >>)
    /\ calls = 1
    /\ Len(work_items) = 1
    /\ work_items[1].application_id = "app-1"
    /\ work_items[1].status = "PENDING"
    /\ applications["app-1"].status = "OUTREACH_PENDING"
    /\ applications["app-2"].status = "SCORED"

\* C35: in every reachable store, when a create_work_item call succeeds with a
\* pending_status that has an edge to the item's target_status and one to its
\* previous_status, then in the store it leaves a complete_work_item call on the
\* new item succeeds, with the application in target_status and the item
\* COMPLETED, and so does, in its place, a skip_work_item call, with the
\* application in previous_status and the item SKIPPED; and a stored PENDING
\* item whose application is in a status with both edges can be completed and
\* can be skipped.
C35_CreatedItemCanBeResolved ==
    /\ \A a \in DOMAIN applications : \A p \in PendingInputs :
         \A r \in RequestsFor(a, p) :
           LET o == create_work_item(applications, work_items, interactions, a,
                                     r.work_type, "title", "instructions",
                                     r.draft_content, r.target_status,
                                     r.previous_status, p, clock)
               i == Len(o.work_items)
               c == complete_work_item(o.applications, o.work_items,
                                       o.interactions, i, clock + o.reads)
               k == skip_work_item(o.applications, o.work_items,
                                   o.interactions, i, clock + o.reads)
           IN  ( /\ can_transition(p, r.target_status)
                 /\ can_transition(p, r.previous_status)
                 /\ o.result = "ok" ) =>
                 ( /\ c.result = "ok"
                   /\ c.applications[a].status = r.target_status
                   /\ c.work_items[i].status = "COMPLETED"
                   /\ k.result = "ok"
                   /\ k.applications[a].status = r.previous_status
                   /\ k.work_items[i].status = "SKIPPED" )
    /\ \A i \in DOMAIN work_items :
         ( /\ work_items[i].status = "PENDING"
           /\ can_transition(applications[AppOf(i)].status,
                             work_items[i].target_status)
           /\ can_transition(applications[AppOf(i)].status,
                             work_items[i].previous_status) ) =>
           ( /\ complete_work_item(applications, work_items, interactions,
                                   i, clock).result = "ok"
             /\ skip_work_item(applications, work_items, interactions,
                               i, clock).result = "ok" )

\* C35 witness: a follow-up item created with (FOLLOW_UP_PENDING, FOLLOW_UP_2,
\* FOLLOW_UP_1) was skipped by the call after its creation, which put the
\* application back in FOLLOW_UP_1.
C35_Witness ==
    /\ calls = 2
    /\ Len(work_items) = 1
    /\ work_items[1].status = "SKIPPED"
    /\ work_items[1].target_status = "FOLLOW_UP_2"
    /\ work_items[1].previous_status = "FOLLOW_UP_1"
    /\ applications["app-1"].status = "FOLLOW_UP_1"
    /\ last = Call("skip_work_item", "ok", << "applications", "work_items" >>)

\* The statuses reachable from those of `from` by legal transitions, `from`
\* included.
RECURSIVE ReachableFrom(_)
ReachableFrom(from) ==
    LET next == from \cup { t \in ApplicationStatus :
                              \E s \in from : can_transition(s, t) }
    IN  IF next = from THEN from ELSE ReachableFrom(next)

\* The statuses an application has before anyone answers, and PASSED.
BeforeResponse ==
    { "DISCOVERED", "SCORED", "OUTREACH_PENDING", "OUTREACH_SENT",
      "FOLLOW_UP_PENDING", "FOLLOW_UP_1", "FOLLOW_UP_2", "GHOSTED", "PASSED" }

\* RESPONSE_RECEIVED and what can follow it.
BeyondResponse == ReachableFrom({ "RESPONSE_RECEIVED" })

\* C36: no status reachable from RESPONSE_RECEIVED by legal transitions is one
\* of DISCOVERED, SCORED, OUTREACH_PENDING, OUTREACH_SENT, FOLLOW_UP_PENDING,
\* FOLLOW_UP_1, FOLLOW_UP_2, GHOSTED, PASSED, and no status has an edge into
\* DISCOVERED; in every reachable store a transition of an application that is
\* in RESPONSE_RECEIVED or beyond to any of the nine is rejected, and no call
\* takes such an application out of the statuses reachable from
\* RESPONSE_RECEIVED.
C36_NoWayBackAcrossResponse ==
    /\ [] ( \A a \in DOMAIN applications :
              /\ BeyondResponse \cap BeforeResponse = {}
              /\ \A s \in ApplicationStatus : ~ can_transition(s, "DISCOVERED")
              /\ applications[a].status \in BeyondResponse =>
                   \A t \in BeforeResponse :
                     transition(applications, a, t, clock).result
                       = "InvalidTransition" )
    /\ [][ \A a \in DOMAIN applications :
             applications[a].status \in BeyondResponse =>
               applications'[a].status \in BeyondResponse ]_vars

\* C36 witness: an application that two calls have brought to
\* INTERVIEW_COMPLETED, a status beyond RESPONSE_RECEIVED, has just had a
\* transition rejected.
C36_Witness ==
    /\ applications["app-1"].status = "INTERVIEW_COMPLETED"
    /\ applications["app-1"].updated_at > applications["app-1"].created_at
    /\ calls = 2
    /\ last = Call("transition", "InvalidTransition", << >>)

\* The statuses from which a terminal status can be reached by legal
\* transitions.
CanBeClosed ==
    { s \in ApplicationStatus : ReachableFrom({ s }) \cap TerminalStatuses # {} }

\* C37: ACCEPTED, REJECTED or PASSED is reachable by legal transitions from
\* each of the 18 statuses, so every stored application, in every reachable
\* store, is in a status from which it can still be closed; unless it is closed
\* already, some transition call on it succeeds.
C37_NoTrapStatus ==
    \A a \in DOMAIN applications :
      /\ CanBeClosed = ApplicationStatus
      /\ applications[a].status \in CanBeClosed
      /\ applications[a].status \notin TerminalStatuses =>
           \E t \in ApplicationStatus :
             /\ t \in CanBeClosed
             /\ transition(applications, a, t, clock).result = "ok"

\* C37 witness: three transitions in a row have closed an application as
\* REJECTED.
C37_Witness ==
    /\ applications["app-1"].status = "REJECTED"
    /\ calls = 3
    /\ work_items = << >>
    /\ interactions = << >>
    /\ last = Call("transition", "ok", << "applications" >>)

\* A work item with its status and completed_at as at creation.
AsCreated(item) ==
    [ item EXCEPT !.status = "PENDING", !.completed_at = NoTime ]

\* C38: every call leaves each stored work item at its index with its
\* application reference, work kind, title, instructions, draft_content,
\* target_status, previous_status and created_at as they were, from its
\* creation on; a successful complete_work_item or skip_work_item call changes
\* the status and completed_at of exactly one item; and in every reachable
\* store the item a resolution of a PENDING item would save, written as a row
\* and read back, is the PENDING item but for status and completed_at.
C38_ResolutionKeepsTheItem ==
    /\ [] ( \A i \in DOMAIN work_items :
              /\ _row_to_work_item(WorkItemRow(work_items[i])) = work_items[i]
              /\ work_items[i].status = "PENDING" =>
                   LET c == complete_work_item(applications, work_items,
                                               interactions, i, clock)
                       k == skip_work_item(applications, work_items,
                                           interactions, i, clock)
                   IN  /\ work_items[i] = AsCreated(work_items[i])
                       /\ AsCreated(_row_to_work_item(WorkItemRow(c.work_items[i])))
                            = work_items[i]
                       /\ AsCreated(_row_to_work_item(WorkItemRow(k.work_items[i])))
                            = work_items[i]
                       /\ c.result = "ok" =>
                            /\ c.work_items[i].status = "COMPLETED"
                            /\ c.work_items[i].completed_at # NoTime
                       /\ k.result = "ok" =>
                            /\ k.work_items[i].status = "SKIPPED"
                            /\ k.work_items[i].completed_at # NoTime )
    /\ [][ /\ \A i \in DOMAIN work_items :
                /\ i \in DOMAIN work_items'
                /\ AsCreated(work_items'[i]) = AsCreated(work_items[i])
           /\ ( /\ last'.op \in { "complete_work_item", "skip_work_item" }
                /\ last'.result = "ok" ) =>
                /\ DOMAIN work_items' = DOMAIN work_items
                /\ Cardinality({ i \in DOMAIN work_items :
                                   work_items'[i] # work_items[i] }) = 1 ]_vars

\* C38 witness: a negotiation item with a draft has been skipped: it is
\* SKIPPED with a completed_at later than its created_at, and still names its
\* application, kind, title, instructions, draft, target and previous status.
C38_Witness ==
    /\ Len(work_items) = 1
    /\ work_items[1]
         = [ WorkItem("app-1", "NEGOTIATE", "title", "instructions", "draft",
                      "NEGOTIATING", "OFFER_RECEIVED", work_items[1].created_at)
             EXCEPT !.status = "SKIPPED",
                    !.completed_at = work_items[1].completed_at ]
    /\ work_items[1].created_at < work_items[1].completed_at
    /\ last = Call("skip_work_item", "ok", << "applications", "work_items" >>)

\* The applications that differ between two stores, and the rows of work_items
\* that differ or are new.
ChangedApplications(before, after) ==
    { b \in DOMAIN before \cup DOMAIN after :
        \/ b \notin DOMAIN before
        \/ b \notin DOMAIN after
        \/ after[b] # before[b] }

ChangedWorkItems(before, after) ==
    { i \in DOMAIN before \cup DOMAIN after :
        \/ i \notin DOMAIN before
        \/ i \notin DOMAIN after
        \/ after[i] # before[i] }

\* C39: in every reachable store, transition(a, t) changes no application but
\* a, whatever a and t are; create_work_item for an application changes no
\* application but that one and no row of work_items but the one it adds;
\* complete_work_item and skip_work_item on an item change no application but
\* the item's and no work item but that one; and a transition call leaves the
\* work items and the interactions as they were.
C39_OperationsTouchWhatTheyName ==
    /\ [] ( /\ \A a \in AppIdInputs : \A t \in TargetsFor(a) :
                 ChangedApplications(applications,
                     transition(applications, a, t, clock).applications)
                   \subseteq { a }
            /\ \A a \in AppIdInputs : \A p \in PendingsFor(a) :
                 \A r \in RequestsFor(a, p) :
                   LET o == create_work_item(applications, work_items,
                                interactions, a, r.work_type, "title",
                                "instructions", r.draft_content,
                                r.target_status, r.previous_status, p, clock)
                   IN  /\ ChangedApplications(applications, o.applications)
                            \subseteq { a }
                       /\ ChangedWorkItems(work_items, o.work_items)
                            \subseteq { Len(work_items) + 1 }
            /\ \A i \in DOMAIN work_items :
                 LET c == complete_work_item(applications, work_items,
                                             interactions, i, clock)
                     k == skip_work_item(applications, work_items,
                                         interactions, i, clock)
                 IN  /\ ChangedApplications(applications, c.applications)
                          \subseteq { AppOf(i) }
                     /\ ChangedWorkItems(work_items, c.work_items) \subseteq { i }
                     /\ ChangedApplications(applications, k.applications)
                          \subseteq { AppOf(i) }
                     /\ ChangedWorkItems(work_items, k.work_items) \subseteq { i } )
    /\ [][ last'.op = "transition" =>
             /\ work_items' = work_items
             /\ interactions' = interactions ]_vars

\* C39 witness: "app-1" was staged, its item completed and a response noted by
\* a transition, while "app-2" is the GHOSTED application it was stored as.
C39_Witness ==
    /\ calls = 3
    /\ last = Call("transition", "ok", << "applications" >>)
    /\ applications["app-1"].status = "RESPONSE_RECEIVED"
    /\ applications["app-2"] = Application("opp-1", "GHOSTED", 0)
    /\ Len(work_items) = 1
    /\ work_items[1].application_id = "app-1"
    /\ work_items[1].status = "COMPLETED"
    /\ Len(interactions) = 1

====
